---- MODULE Spec2Model ----
(***************************************************************************)
(* Model of the solana-grpc-indexer ingestion pipeline.                    *)
(*                                                                         *)
(*   processor/src/worker.rs       Processor: three row buffers, the size  *)
(*                                 triggered flush and flush_all           *)
(*   processor/src/transformer.rs  Transformer: event -> storage row       *)
(*   processor/src/clickhouse.rs   ClickhouseClient: batch inserts         *)
(*                                                                         *)
(*   core/src/main.rs              main: connect, subscribe, read loop     *)
(*   ingest/src/yellowstone_client.rs                                      *)
(*                                 YellowstoneClient: the stream reader    *)
(*                                 and the decoders of the updates         *)
(*                                                                         *)
(* The consumer loop that drives the Processor (channel receive, timer     *)
(* tick, channel closed) and the bounded event channel are not part of the *)
(* sources at hand; they are modelled from the design document (sections   *)
(* 4.3 and 4.4) as a client of the Processor's public operations.          *)
(***************************************************************************)
EXTENDS Integers, Sequences, FiniteSets, TLC

(***************************************************************************)
(* Bounds of the model.                                                    *)
(***************************************************************************)
\* worker.rs:41 sets batch_size to 1000; the model scales it down.
batch_size == 2
\* capacity of the event channel (design document: e.g. 10,000 entries)
ChannelCap == 2
\* number of events the producer pushes in one run
MaxEvents == 3
\* number of timer ticks in one run
MaxTicks == 1
\* number of stream errors main reads in one run
MaxStreamErrors == 8
\* number of account updates main prints in one run
MaxUpdates == 4
\* number of instructions in a message of a transaction update
MaxInstr == 2
\* events of a run in which the timer keeps ticking
MaxLiveEvents == 2
\* number of batch writes that fail before the sink recovers
MaxFailures == 1
\* number of times the process is started
MaxStarts == 2

VARIABLES
    tx_buffer,       \* Processor.tx_buffer: Vec<ClickHouseTransaction>
    account_buffer,  \* Processor.account_buffer: Vec<ClickHouseAccount>
    slot_buffer,     \* Processor.slot_buffer: Vec<ClickHouseSlot>
    last_result,     \* result of the last Processor call: "Ok" / "Err" / "None"
    log,             \* history: events taken, ticks, close, batch writes
    chan,            \* the event channel, a FIFO of IndexEvent
    closed,          \* the producer side of the channel has been dropped
    sent,            \* history: every event pushed onto the channel, in order
    pc,              \* consumer loop: "running" / "exited"
    now,             \* the clock read by Utc::now(); one unit per timer tick
    main_pc,         \* main: "start" / "streaming" / "sleeping" / "exited"
    main_result,     \* what main returned: "Ok" / "Err" / "None"
    wait,            \* the duration of the last sleep of main
    stream_errors,   \* number of stream errors main has read
    printed,         \* number of account updates main has printed
    conn_pc,         \* connect_and_run: "start" / "reading" / "returned"
    conn_result,     \* what connect_and_run returned: "Ok" / "Err" / "None"
    conn_end,        \* why it returned: "none" / "connect_err" / "stream_err"
                     \*   / "clean_end"
    seen,            \* the updates read from the stream, in order
    decoded,         \* what the update handlers decoded (and logged), in order
    store,           \* the database: per table, None or Some(rows it held
                     \*   before startup)
    proc_state,      \* Processor::new: "none" / "built" / "failed"
    starts,          \* number of times Processor::new has run
    boot_log,        \* history: the CREATE TABLE statements run, per start
    inflight,        \* the batch write a flush is awaiting, if any
    withheld         \* the chain transactions the server's filter held back

vars == <<tx_buffer, account_buffer, slot_buffer, last_result, log, chan,
          closed, sent, pc, now, main_pc, main_result, wait, stream_errors,
          printed, conn_pc, conn_result, conn_end, seen, decoded, store,
          proc_state, starts, boot_log, inflight, withheld>>

procVars == <<tx_buffer, account_buffer, slot_buffer, last_result, log>>
mainVars == <<main_pc, main_result, wait, stream_errors, printed>>
connVars == <<conn_pc, conn_result, conn_end, seen, decoded>>
pipeVars == <<procVars, chan, closed, sent, pc, now>>
bootVars == <<store, proc_state, starts, boot_log>>
auxVars == <<bootVars, inflight, withheld>>

\* An Option is a sequence of length at most one.
None == <<>>
Some(x) == <<x>>

(***************************************************************************)
(* Events (ingest::types::IndexEvent) and storage rows.                    *)
(***************************************************************************)
EventKinds == {"Account", "Transaction", "Slot", "Block"}
Tables == {"transactions", "accounts", "slots"}

TableOf(kind) ==
    CASE kind = "Account" -> "accounts"
      [] kind = "Transaction" -> "transactions"
      [] kind = "Slot" -> "slots"
      [] OTHER -> "none"

\* The n-th update of the stream decoded at clock value t.  The number n
\* stands in the field that identifies the update: write_version of an
\* account, index of a transaction, the slot number of a slot.
MkEvent(kind, n, t) ==
    CASE kind = "Account" ->
           [kind |-> kind,
            body |-> [pubkey |-> "abc", lamports |-> 100 * n,
                      write_version |-> n, timestamp |-> t]]
      [] kind = "Transaction" ->
           [kind |-> kind,
            body |-> [signature |-> "sig", slot |-> 42, index |-> n,
                      success |-> TRUE, pre_balances |-> <<n, 7>>]]
      [] kind = "Slot" -> [kind |-> kind, body |-> n]
      [] OTHER -> [kind |-> kind, body |-> n]

\* serde_json::to_string of a Vec<u64>
RECURSIVE JsonItems(_)
JsonItems(s) ==
    IF s = <<>> THEN ""
    ELSE IF Len(s) = 1 THEN ToString(s[1])
    ELSE ToString(s[1]) \o "," \o JsonItems(Tail(s))

to_string(s) == "[" \o JsonItems(s) \o "]"

transform_account(account) ==
    [pubkey |-> account.pubkey,
     lamports |-> account.lamports,
     write_version |-> account.write_version,
     timestamp |-> account.timestamp]

transform_transaction(tx, clock) ==
    [signature |-> tx.signature,
     slot |-> tx.slot,
     index |-> tx.index,
     success |-> tx.success,
     timestamp |-> clock,
     pre_balances |-> to_string(tx.pre_balances)]

transform_slot(slot, clock) ==
    [slot |-> slot, timestamp |-> clock]

(***************************************************************************)
(* ClickhouseClient: the batch inserts.  The sink is external; `answer` is *)
(* what it gives for this call ("Ok", or "Err" when opening the insert,    *)
(* writing a row or ending the insert fails).  Each operator returns the   *)
(* result and the storage calls made.                                      *)
(***************************************************************************)
SinkAnswers == {"Ok", "Err"}

WriteEntry(table, rows, answer, clock) ==
    [op |-> "write", table |-> table, rows |-> rows,
     ok |-> (answer = "Ok"), at |-> clock]

batch_insert_transactions(txs, answer, clock) ==
    IF txs = <<>> THEN [result |-> "Ok", calls |-> <<>>]
    ELSE [result |-> answer,
          calls |-> <<WriteEntry("transactions", txs, answer, clock)>>]

\* batch_insert_accounts that sends only the first row
batch_insert_accounts_FirstRow(accounts, answer, clock) ==
    IF accounts = <<>> THEN [result |-> "Ok", calls |-> <<>>]
    ELSE [result |-> answer,
          calls |-> <<WriteEntry("accounts", <<accounts[1]>>, answer, clock)>>]

batch_insert_accounts(accounts, answer, clock) ==
    IF accounts = <<>> THEN [result |-> "Ok", calls |-> <<>>]
    ELSE [result |-> answer,
          calls |-> <<WriteEntry("accounts", accounts, answer, clock)>>]

batch_insert_slots(slots, answer, clock) ==
    IF slots = <<>> THEN [result |-> "Ok", calls |-> <<>>]
    ELSE [result |-> answer,
          calls |-> <<WriteEntry("slots", slots, answer, clock)>>]

(***************************************************************************)
(* Processor (worker.rs).  A processor value p holds the three buffers;    *)
(* every operation returns the new buffers, its result and the storage     *)
(* calls it made, in order.                                                *)
(***************************************************************************)
Proc(txb, accb, slotb) ==
    [tx_buffer |-> txb, account_buffer |-> accb, slot_buffer |-> slotb]

Ret(p, result, calls) == [p |-> p, result |-> result, calls |-> calls]

\* flush_accounts that clears its buffer also when the write failed
flush_accounts_ClearOnErr(p, answer, clock) ==
    IF p.account_buffer = <<>> THEN Ret(p, "Ok", <<>>)
    ELSE LET r == batch_insert_accounts(p.account_buffer, answer, clock)
         IN IF r.result = "Ok"
            THEN Ret([p EXCEPT !.account_buffer = <<>>], "Ok", r.calls)
            ELSE Ret([p EXCEPT !.account_buffer = <<>>], "Err", r.calls)

flush_accounts(p, answer, clock) ==
    IF p.account_buffer = <<>> THEN Ret(p, "Ok", <<>>)
    ELSE LET r == batch_insert_accounts(p.account_buffer, answer, clock)
         IN IF r.result = "Ok"
            THEN Ret([p EXCEPT !.account_buffer = <<>>], "Ok", r.calls)
            ELSE Ret(p, "Err", r.calls)

\* flush_transactions that keeps its buffer after a successful write
flush_transactions_KeepOnOk(p, answer, clock) ==
    IF p.tx_buffer = <<>> THEN Ret(p, "Ok", <<>>)
    ELSE LET r == batch_insert_transactions(p.tx_buffer, answer, clock)
         IN IF r.result = "Ok"
            THEN Ret(p, "Ok", r.calls)
            ELSE Ret(p, "Err", r.calls)

flush_transactions(p, answer, clock) ==
    IF p.tx_buffer = <<>> THEN Ret(p, "Ok", <<>>)
    ELSE LET r == batch_insert_transactions(p.tx_buffer, answer, clock)
         IN IF r.result = "Ok"
            THEN Ret([p EXCEPT !.tx_buffer = <<>>], "Ok", r.calls)
            ELSE Ret(p, "Err", r.calls)

\* flush_slots that keeps its buffer after a successful write
flush_slots_KeepOnOk(p, answer, clock) ==
    IF p.slot_buffer = <<>> THEN Ret(p, "Ok", <<>>)
    ELSE LET r == batch_insert_slots(p.slot_buffer, answer, clock)
         IN IF r.result = "Ok"
            THEN Ret(p, "Ok", r.calls)
            ELSE Ret(p, "Err", r.calls)

\* flush_slots that swallows the error and clears its buffer
flush_slots_ClearOnErr(p, answer, clock) ==
    IF p.slot_buffer = <<>> THEN Ret(p, "Ok", <<>>)
    ELSE LET r == batch_insert_slots(p.slot_buffer, answer, clock)
         IN Ret([p EXCEPT !.slot_buffer = <<>>], "Ok", r.calls)

\* flush_slots that hands an empty buffer to the sink
flush_slots_EmptyWrite(p, answer, clock) ==
    IF p.slot_buffer = <<>>
    THEN Ret(p, answer, <<WriteEntry("slots", <<>>, answer, clock)>>)
    ELSE LET r == batch_insert_slots(p.slot_buffer, answer, clock)
         IN IF r.result = "Ok"
            THEN Ret([p EXCEPT !.slot_buffer = <<>>], "Ok", r.calls)
            ELSE Ret(p, "Err", r.calls)

flush_slots(p, answer, clock) ==
    IF p.slot_buffer = <<>> THEN Ret(p, "Ok", <<>>)
    ELSE LET r == batch_insert_slots(p.slot_buffer, answer, clock)
         IN IF r.result = "Ok"
            THEN Ret([p EXCEPT !.slot_buffer = <<>>], "Ok", r.calls)
            ELSE Ret(p, "Err", r.calls)

\* flush_all that leaves the slots out
flush_all_NoSlots(p, answers, clock) ==
    LET a == flush_transactions(p, answers["transactions"], clock)
    IN IF a.result = "Err" THEN a
       ELSE LET b == flush_accounts(a.p, answers["accounts"], clock)
            IN Ret(b.p, b.result, a.calls \o b.calls)

\* flush_all that leaves the accounts out
flush_all_NoAccounts(p, answers, clock) ==
    LET a == flush_transactions(p, answers["transactions"], clock)
    IN IF a.result = "Err" THEN a
       ELSE LET c == flush_slots(a.p, answers["slots"], clock)
            IN Ret(c.p, c.result, a.calls \o c.calls)

\* flush_all that goes on after a failed flush and reports the failure last
flush_all_Continue(p, answers, clock) ==
    LET a == flush_transactions(p, answers["transactions"], clock)
        b == flush_accounts(a.p, answers["accounts"], clock)
        c == flush_slots(b.p, answers["slots"], clock)
    IN Ret(c.p,
           IF "Err" \in {a.result, b.result, c.result} THEN "Err" ELSE "Ok",
           a.calls \o b.calls \o c.calls)

\* answers: one sink answer per table, used if that table is written
flush_all(p, answers, clock) ==
    LET a == flush_transactions(p, answers["transactions"], clock)
    IN IF a.result = "Err" THEN a
       ELSE LET b == flush_accounts(a.p, answers["accounts"], clock)
            IN IF b.result = "Err" THEN Ret(b.p, "Err", a.calls \o b.calls)
               ELSE LET c == flush_slots(b.p, answers["slots"], clock)
                    IN Ret(c.p, c.result, a.calls \o b.calls \o c.calls)

\* process_event that flushes only once a buffer exceeds batch_size
process_event_FlushLate(p, event, answer, clock) ==
    CASE event.kind = "Account" ->
           LET q == [p EXCEPT !.account_buffer =
                                  Append(@, transform_account(event.body))]
           IN IF Len(q.account_buffer) > batch_size
              THEN flush_accounts(q, answer, clock)
              ELSE Ret(q, "Ok", <<>>)
      [] event.kind = "Transaction" ->
           LET q == [p EXCEPT !.tx_buffer =
                                  Append(@, transform_transaction(event.body, clock))]
           IN IF Len(q.tx_buffer) > batch_size
              THEN flush_transactions(q, answer, clock)
              ELSE Ret(q, "Ok", <<>>)
      [] event.kind = "Slot" ->
           LET q == [p EXCEPT !.slot_buffer =
                                  Append(@, transform_slot(event.body, clock))]
           IN IF Len(q.slot_buffer) > batch_size
              THEN flush_slots(q, answer, clock)
              ELSE Ret(q, "Ok", <<>>)
      [] OTHER -> Ret(p, "Ok", <<>>)

\* process_event that puts a new transaction row at the front of its buffer
process_event_PushFront(p, event, answer, clock) ==
    CASE event.kind = "Account" ->
           LET q == [p EXCEPT !.account_buffer =
                                  Append(@, transform_account(event.body))]
           IN IF Len(q.account_buffer) >= batch_size
              THEN flush_accounts(q, answer, clock)
              ELSE Ret(q, "Ok", <<>>)
      [] event.kind = "Transaction" ->
           LET q == [p EXCEPT !.tx_buffer =
                                  <<transform_transaction(event.body, clock)>> \o @]
           IN IF Len(q.tx_buffer) >= batch_size
              THEN flush_transactions(q, answer, clock)
              ELSE Ret(q, "Ok", <<>>)
      [] event.kind = "Slot" ->
           LET q == [p EXCEPT !.slot_buffer =
                                  Append(@, transform_slot(event.body, clock))]
           IN IF Len(q.slot_buffer) >= batch_size
              THEN flush_slots(q, answer, clock)
              ELSE Ret(q, "Ok", <<>>)
      [] OTHER -> Ret(p, "Ok", <<>>)

\* process_event that sheds a new row once its buffer holds batch_size rows
process_event_Capped(p, event, answer, clock) ==
    CASE event.kind = "Account" ->
           LET q == [p EXCEPT !.account_buffer =
                                  IF Len(@) >= batch_size THEN @
                                  ELSE Append(@, transform_account(event.body))]
           IN IF Len(q.account_buffer) >= batch_size
              THEN flush_accounts(q, answer, clock)
              ELSE Ret(q, "Ok", <<>>)
      [] event.kind = "Transaction" ->
           LET q == [p EXCEPT !.tx_buffer =
                                  IF Len(@) >= batch_size THEN @
                                  ELSE Append(@, transform_transaction(event.body, clock))]
           IN IF Len(q.tx_buffer) >= batch_size
              THEN flush_transactions(q, answer, clock)
              ELSE Ret(q, "Ok", <<>>)
      [] event.kind = "Slot" ->
           LET q == [p EXCEPT !.slot_buffer =
                                  IF Len(@) >= batch_size THEN @
                                  ELSE Append(@, transform_slot(event.body, clock))]
           IN IF Len(q.slot_buffer) >= batch_size
              THEN flush_slots(q, answer, clock)
              ELSE Ret(q, "Ok", <<>>)
      [] OTHER -> Ret(p, "Ok", <<>>)

\* process_event that buffers a block as a slot row
process_event_BlockAsSlot(p, event, answer, clock) ==
    CASE event.kind = "Account" ->
           LET q == [p EXCEPT !.account_buffer =
                                  Append(@, transform_account(event.body))]
           IN IF Len(q.account_buffer) >= batch_size
              THEN flush_accounts(q, answer, clock)
              ELSE Ret(q, "Ok", <<>>)
      [] event.kind = "Transaction" ->
           LET q == [p EXCEPT !.tx_buffer =
                                  Append(@, transform_transaction(event.body, clock))]
           IN IF Len(q.tx_buffer) >= batch_size
              THEN flush_transactions(q, answer, clock)
              ELSE Ret(q, "Ok", <<>>)
      [] OTHER ->
           LET q == [p EXCEPT !.slot_buffer =
                                  Append(@, transform_slot(event.body, clock))]
           IN IF Len(q.slot_buffer) >= batch_size
              THEN flush_slots(q, answer, clock)
              ELSE Ret(q, "Ok", <<>>)

\* process_event that flushes only when a buffer holds exactly batch_size rows
process_event_ExactTrigger(p, event, answer, clock) ==
    CASE event.kind = "Account" ->
           LET q == [p EXCEPT !.account_buffer =
                                  Append(@, transform_account(event.body))]
           IN IF Len(q.account_buffer) = batch_size
              THEN flush_accounts(q, answer, clock)
              ELSE Ret(q, "Ok", <<>>)
      [] event.kind = "Transaction" ->
           LET q == [p EXCEPT !.tx_buffer =
                                  Append(@, transform_transaction(event.body, clock))]
           IN IF Len(q.tx_buffer) = batch_size
              THEN flush_transactions(q, answer, clock)
              ELSE Ret(q, "Ok", <<>>)
      [] event.kind = "Slot" ->
           LET q == [p EXCEPT !.slot_buffer =
                                  Append(@, transform_slot(event.body, clock))]
           IN IF Len(q.slot_buffer) = batch_size
              THEN flush_slots(q, answer, clock)
              ELSE Ret(q, "Ok", <<>>)
      [] OTHER -> Ret(p, "Ok", <<>>)

\* process_event whose size trigger flushes every buffer
process_event_FlushAllOnSize(p, event, answer, clock) ==
    LET q == CASE event.kind = "Account" ->
                    [p EXCEPT !.account_buffer =
                                  Append(@, transform_account(event.body))]
               [] event.kind = "Transaction" ->
                    [p EXCEPT !.tx_buffer =
                                  Append(@, transform_transaction(event.body, clock))]
               [] event.kind = "Slot" ->
                    [p EXCEPT !.slot_buffer =
                                  Append(@, transform_slot(event.body, clock))]
               [] OTHER -> p
        full == \/ event.kind = "Account" /\ Len(q.account_buffer) >= batch_size
                \/ event.kind = "Transaction" /\ Len(q.tx_buffer) >= batch_size
                \/ event.kind = "Slot" /\ Len(q.slot_buffer) >= batch_size
    IN IF full
       THEN flush_all(q, [t \in {"transactions", "accounts", "slots"} |-> answer],
                      clock)
       ELSE Ret(q, "Ok", <<>>)

process_event(p, event, answer, clock) ==
    CASE event.kind = "Account" ->
           LET ch_account == transform_account(event.body)
               q == [p EXCEPT !.account_buffer = Append(@, ch_account)]
           IN IF Len(q.account_buffer) >= batch_size
              THEN flush_accounts(q, answer, clock)
              ELSE Ret(q, "Ok", <<>>)
      [] event.kind = "Transaction" ->
           LET ch_tx == transform_transaction(event.body, clock)
               q == [p EXCEPT !.tx_buffer = Append(@, ch_tx)]
           IN IF Len(q.tx_buffer) >= batch_size
              THEN flush_transactions(q, answer, clock)
              ELSE Ret(q, "Ok", <<>>)
      [] event.kind = "Slot" ->
           LET ch_slot == transform_slot(event.body, clock)
               q == [p EXCEPT !.slot_buffer = Append(@, ch_slot)]
           IN IF Len(q.slot_buffer) >= batch_size
              THEN flush_slots(q, answer, clock)
              ELSE Ret(q, "Ok", <<>>)
      [] OTHER -> Ret(p, "Ok", <<>>)

(***************************************************************************)
(* ClickhouseClient::new and init_tables (clickhouse.rs), Processor::new   *)
(* (worker.rs).  A store maps each table to None (absent) or Some(rows).   *)
(***************************************************************************)
CreateAnswers == [Tables -> SinkAnswers]

CreateEntry(run, table, outcome) ==
    [run |-> run, table |-> table, ok |-> (outcome = "Ok")]

\* CREATE TABLE that replaces a table that exists
create_table_if_not_exists_Replace(st, table, outcome) ==
    IF outcome = "Ok" THEN [st EXCEPT ![table] = Some(<<>>)] ELSE st

\* CREATE TABLE IF NOT EXISTS: creates the table empty if it is absent and
\* leaves an existing table alone; a statement that fails changes nothing
create_table_if_not_exists(st, table, outcome) ==
    IF outcome = "Ok" /\ st[table] = None
    THEN [st EXCEPT ![table] = Some(<<>>)]
    ELSE st

Booted(st, result, calls) == [store |-> st, result |-> result, calls |-> calls]

\* the three statements in source order, each followed by `?`
init_tables(st, outcomes, run) ==
    LET a == create_table_if_not_exists(st, "transactions", outcomes["transactions"])
        ea == CreateEntry(run, "transactions", outcomes["transactions"])
    IN IF outcomes["transactions"] = "Err" THEN Booted(a, "Err", <<ea>>)
       ELSE LET b == create_table_if_not_exists(a, "accounts", outcomes["accounts"])
                eb == CreateEntry(run, "accounts", outcomes["accounts"])
            IN IF outcomes["accounts"] = "Err" THEN Booted(b, "Err", <<ea, eb>>)
               ELSE LET c == create_table_if_not_exists(b, "slots", outcomes["slots"])
                        ec == CreateEntry(run, "slots", outcomes["slots"])
                    IN Booted(c, outcomes["slots"], <<ea, eb, ec>>)

\* ClickhouseClient::new that does not look at the result of init_tables
ClickhouseClient_new_IgnoreInit(st, outcomes, run) ==
    LET r == init_tables(st, outcomes, run)
    IN Booted(r.store, "Ok", r.calls)

\* ClickhouseClient::new: build the client, init_tables().await?, Ok(client)
ClickhouseClient_new(st, outcomes, run) ==
    LET r == init_tables(st, outcomes, run)
    IN IF r.result = "Err" THEN r ELSE Booted(r.store, "Ok", r.calls)

\* Processor::new: ClickhouseClient::new(..).await?, then Ok(Self { .. })
\* with empty buffers
Processor_new(st, outcomes, run) ==
    LET r == ClickhouseClient_new(st, outcomes, run)
    IN [store |-> r.store, result |-> r.result, calls |-> r.calls,
        p |-> Proc(<<>>, <<>>, <<>>)]

(***************************************************************************)
(* Initial state: Processor::new has returned (empty buffers), the channel *)
(* is empty and open, main and the connector have not started.             *)
(***************************************************************************)
InitPipeline ==
    /\ tx_buffer = <<>>
    /\ account_buffer = <<>>
    /\ slot_buffer = <<>>
    /\ last_result = "None"
    /\ log = <<>>
    /\ chan = <<>>
    /\ closed = FALSE
    /\ sent = <<>>
    /\ pc = "running"
    /\ now = 0
    /\ main_pc = "start"
    /\ main_result = "None"
    /\ wait = 0
    /\ stream_errors = 0
    /\ printed = 0
    /\ conn_pc = "start"
    /\ conn_result = "None"
    /\ conn_end = "none"
    /\ seen = <<>>
    /\ decoded = <<>>
    /\ inflight = None
    /\ withheld = {}

\* after Processor::new has succeeded on a database without tables
Init ==
    /\ InitPipeline
    /\ store = [t \in Tables |-> Some(<<>>)]
    /\ proc_state = "built"
    /\ starts = 1
    /\ boot_log = <<>>

Self == Proc(tx_buffer, account_buffer, slot_buffer)

\* store the outcome r of a Processor call, after the history entry `entry`
Apply(r, entry) ==
    /\ tx_buffer' = r.p.tx_buffer
    /\ account_buffer' = r.p.account_buffer
    /\ slot_buffer' = r.p.slot_buffer
    /\ last_result' = r.result
    /\ log' = log \o <<entry>> \o r.calls

OpEntry(op, table, rows, clock) ==
    [op |-> op, table |-> table, rows |-> rows, ok |-> TRUE, at |-> clock]

(***************************************************************************)
(* Producer side: the connector pushes a decoded event; push suspends      *)
(* while the channel is full.                                              *)
(***************************************************************************)
\* a push that overwrites the oldest item of a full channel
Push_DropOldest(kind) ==
    /\ ~closed
    /\ Len(sent) < MaxEvents
    /\ LET event == MkEvent(kind, Len(sent) + 1, now)
       IN /\ chan' = (IF Len(chan) < ChannelCap THEN Append(chan, event)
                      ELSE Append(Tail(chan), event))
          /\ sent' = Append(sent, event)
    /\ UNCHANGED <<procVars, closed, pc, now, mainVars, connVars, auxVars>>

Push(kind) ==
    /\ ~closed
    /\ Len(sent) < MaxEvents
    /\ Len(chan) < ChannelCap
    /\ LET event == MkEvent(kind, Len(sent) + 1, now)
       IN /\ chan' = Append(chan, event)
          /\ sent' = Append(sent, event)
    /\ UNCHANGED <<procVars, closed, pc, now, mainVars, connVars, auxVars>>

CloseChannel ==
    /\ ~closed
    /\ closed' = TRUE
    /\ UNCHANGED <<procVars, chan, sent, pc, now, mainVars, connVars, auxVars>>

(***************************************************************************)
(* Consumer loop: one of event arrival, timer tick, channel closed.        *)
(***************************************************************************)
Recv(answer) ==
    /\ pc = "running"
    /\ chan # <<>>
    /\ LET event == Head(chan)
       IN Apply(process_event(Self, event, answer, now),
                OpEntry("recv", TableOf(event.kind), <<event>>, now))
    /\ chan' = Tail(chan)
    /\ UNCHANGED <<closed, sent, pc, now, mainVars, connVars, auxVars>>

Tick(answers) ==
    /\ pc = "running"
    /\ now < MaxTicks
    /\ now' = now + 1
    /\ Apply(flush_all(Self, answers, now'), OpEntry("tick", "none", <<>>, now'))
    /\ UNCHANGED <<chan, closed, sent, pc, mainVars, connVars, auxVars>>

\* a consumer that leaves as soon as the channel is closed
ChannelClosed_DropQueued(answers) ==
    /\ pc = "running"
    /\ closed
    /\ Apply(flush_all(Self, answers, now), OpEntry("closed", "none", <<>>, now))
    /\ pc' = "exited"
    /\ UNCHANGED <<chan, closed, sent, now, mainVars, connVars, auxVars>>

ChannelClosed(answers) ==
    /\ pc = "running"
    /\ chan = <<>>
    /\ closed
    /\ Apply(flush_all(Self, answers, now), OpEntry("closed", "none", <<>>, now))
    /\ pc' = "exited"
    /\ UNCHANGED <<chan, closed, sent, now, mainVars, connVars, auxVars>>

(***************************************************************************)
(* main (core/src/main.rs): connect and subscribe once, then read the      *)
(* stream until it ends.                                                   *)
(***************************************************************************)
\* sleep(Duration::from_secs(1)) after a stream error
SleepSecs == 1

\* lines 25-65: load the configuration, build, connect, subscribe and send
\* the request; any failure (`?`) ends main with the error
MainConnect(outcome) ==
    /\ main_pc = "start"
    /\ IF outcome = "Ok"
       THEN main_pc' = "streaming" /\ main_result' = main_result
       ELSE main_pc' = "exited" /\ main_result' = "Err"
    /\ UNCHANGED <<auxVars, connVars, procVars, chan, closed, sent, pc, now, wait, stream_errors,
                   printed>>

\* rx.next() gives Ok(msg) with an account update: it is printed
AccountUpdate ==
    /\ main_pc = "streaming"
    /\ printed < MaxUpdates
    /\ printed' = printed + 1
    /\ UNCHANGED <<auxVars, connVars, procVars, chan, closed, sent, pc, now, main_pc, main_result,
                   wait, stream_errors>>

\* a stream error whose first sleep is longer than the later ones
StreamError_Reset ==
    /\ main_pc = "streaming"
    /\ stream_errors < MaxStreamErrors
    /\ stream_errors' = stream_errors + 1
    /\ wait' = (IF stream_errors = 0 THEN SleepSecs + 1 ELSE SleepSecs)
    /\ main_pc' = "sleeping"
    /\ UNCHANGED <<auxVars, connVars, procVars, chan, closed, sent, pc, now, main_result, printed>>

\* rx.next() gives Err(error): it is printed and main sleeps
StreamError ==
    /\ main_pc = "streaming"
    /\ stream_errors < MaxStreamErrors
    /\ stream_errors' = stream_errors + 1
    /\ wait' = SleepSecs
    /\ main_pc' = "sleeping"
    /\ UNCHANGED <<auxVars, connVars, procVars, chan, closed, sent, pc, now, main_result, printed>>

\* the sleep is over: main polls the same stream again
SleepDone ==
    /\ main_pc = "sleeping"
    /\ main_pc' = "streaming"
    /\ UNCHANGED <<auxVars, connVars, procVars, chan, closed, sent, pc, now, main_result, wait,
                   stream_errors, printed>>

\* rx.next() gives None: the loop ends and main returns Ok(())
StreamEnd ==
    /\ main_pc = "streaming"
    /\ main_pc' = "exited"
    /\ main_result' = "Ok"
    /\ UNCHANGED <<auxVars, connVars, procVars, chan, closed, sent, pc, now, wait, stream_errors,
                   printed>>

(***************************************************************************)
(* YellowstoneClient (ingest/src/yellowstone_client.rs): the decoders.     *)
(* Bytes are sequences of numbers in 0..255.                               *)
(***************************************************************************)
B58Alphabet ==
    <<"1", "2", "3", "4", "5", "6", "7", "8", "9", "A", "B", "C", "D", "E",
      "F", "G", "H", "J", "K", "L", "M", "N", "P", "Q", "R", "S", "T", "U",
      "V", "W", "X", "Y", "Z", "a", "b", "c", "d", "e", "f", "g", "h", "i",
      "j", "k", "m", "n", "o", "p", "q", "r", "s", "t", "u", "v", "w", "x",
      "y", "z">>

RECURSIVE BytesToNat(_)
BytesToNat(b) ==
    IF b = <<>> THEN 0
    ELSE BytesToNat(SubSeq(b, 1, Len(b) - 1)) * 256 + b[Len(b)]

RECURSIVE B58Digits(_)
B58Digits(n) ==
    IF n = 0 THEN "" ELSE B58Digits(n \div 58) \o B58Alphabet[(n % 58) + 1]

RECURSIVE B58LeadingOnes(_)
B58LeadingOnes(b) ==
    IF b # <<>> /\ b[1] = 0 THEN "1" \o B58LeadingOnes(Tail(b)) ELSE ""

\* bs58::encode(bytes).into_string(): a "1" per leading zero byte, then the
\* base-58 digits of the number the bytes write
bs58_encode(b) == B58LeadingOnes(b) \o B58Digits(BytesToNat(b))

B64Alphabet ==
    <<"A", "B", "C", "D", "E", "F", "G", "H", "I", "J", "K", "L", "M", "N",
      "O", "P", "Q", "R", "S", "T", "U", "V", "W", "X", "Y", "Z", "a", "b",
      "c", "d", "e", "f", "g", "h", "i", "j", "k", "l", "m", "n", "o", "p",
      "q", "r", "s", "t", "u", "v", "w", "x", "y", "z", "0", "1", "2", "3",
      "4", "5", "6", "7", "8", "9", "+", "/">>

\* general_purpose::STANDARD.encode(bytes): base64 with padding
RECURSIVE base64_encode(_)
base64_encode(b) ==
    IF b = <<>> THEN ""
    ELSE IF Len(b) = 1
    THEN B64Alphabet[(b[1] \div 4) + 1] \o B64Alphabet[((b[1] % 4) * 16) + 1]
         \o "=="
    ELSE IF Len(b) = 2
    THEN B64Alphabet[(b[1] \div 4) + 1]
         \o B64Alphabet[((b[1] % 4) * 16 + (b[2] \div 16)) + 1]
         \o B64Alphabet[((b[2] % 16) * 4) + 1] \o "="
    ELSE B64Alphabet[(b[1] \div 4) + 1]
         \o B64Alphabet[((b[1] % 4) * 16 + (b[2] \div 16)) + 1]
         \o B64Alphabet[((b[2] % 16) * 4 + (b[3] \div 64)) + 1]
         \o B64Alphabet[(b[3] % 64) + 1]
         \o base64_encode(SubSeq(b, 4, Len(b)))

\* keys.iter().map(|key| bs58::encode(key).into_string()).collect()
RECURSIVE EncodeKeys(_)
EncodeKeys(keys) ==
    IF keys = <<>> THEN <<>>
    ELSE <<bs58_encode(keys[1])>> \o EncodeKeys(Tail(keys))

\* account list that keeps an empty string for an index out of range
RECURSIVE InstructionAccounts_EmptyForMissing(_, _)
InstructionAccounts_EmptyForMissing(ids, account_keys) ==
    IF ids = <<>> THEN <<>>
    ELSE (IF ids[1] < Len(account_keys)
          THEN <<bs58_encode(account_keys[ids[1] + 1])>>
          ELSE <<"">>)
         \o InstructionAccounts_EmptyForMissing(Tail(ids), account_keys)

\* ids.iter().filter_map(|&id| account_keys.get(id).map(bs58)).collect();
\* the index id is zero-based
RECURSIVE InstructionAccounts(_, _)
InstructionAccounts(ids, account_keys) ==
    IF ids = <<>> THEN <<>>
    ELSE (IF ids[1] < Len(account_keys)
          THEN <<bs58_encode(account_keys[ids[1] + 1])>>
          ELSE <<>>)
         \o InstructionAccounts(Tail(ids), account_keys)

\* DecodeInstruction that takes the last key for an index out of range
DecodeInstruction_LastKey(instruction, account_keys) ==
    [program_id |->
         IF instruction.program_id_index < Len(account_keys)
         THEN bs58_encode(account_keys[instruction.program_id_index + 1])
         ELSE IF account_keys = <<>> THEN ""
         ELSE bs58_encode(account_keys[Len(account_keys)]),
     accounts |-> InstructionAccounts(instruction.accounts, account_keys),
     data |-> base64_encode(instruction.data)]

\* the body of the loop over message.instructions
DecodeInstruction(instruction, account_keys) ==
    [program_id |->
         IF instruction.program_id_index < Len(account_keys)
         THEN bs58_encode(account_keys[instruction.program_id_index + 1])
         ELSE "",
     accounts |-> InstructionAccounts(instruction.accounts, account_keys),
     data |-> base64_encode(instruction.data)]

RECURSIVE DecodeInstructions(_, _)
DecodeInstructions(instructions, account_keys) ==
    IF instructions = <<>> THEN <<>>
    ELSE <<DecodeInstruction(instructions[1], account_keys)>>
         \o DecodeInstructions(Tail(instructions), account_keys)

\* into_solana_account that makes a defaulted account of an empty update
into_solana_account_Defaulted(account_data, clock) ==
    IF account_data.payload # None
    THEN LET account_info == account_data.payload[1]
         IN Some([pubkey |-> bs58_encode(account_info.pubkey),
                  lamports |-> account_info.lamports,
                  owner |-> bs58_encode(account_info.owner),
                  executable |-> account_info.executable,
                  rent_epoch |-> account_info.rent_epoch,
                  data |-> base64_encode(account_info.data),
                  write_version |-> account_info.write_version,
                  txn_signature |->
                      IF account_info.txn_signature = None THEN None
                      ELSE Some(bs58_encode(account_info.txn_signature[1])),
                  timestamp |-> clock])
    ELSE Some([pubkey |-> "", lamports |-> 0, owner |-> "",
               executable |-> FALSE, rent_epoch |-> 0, data |-> "",
               write_version |-> 0, txn_signature |-> None,
               timestamp |-> clock])

into_solana_account(account_data, clock) ==
    IF account_data.payload # None
    THEN LET account_info == account_data.payload[1]
         IN Some([pubkey |-> bs58_encode(account_info.pubkey),
                  lamports |-> account_info.lamports,
                  owner |-> bs58_encode(account_info.owner),
                  executable |-> account_info.executable,
                  rent_epoch |-> account_info.rent_epoch,
                  data |-> base64_encode(account_info.data),
                  write_version |-> account_info.write_version,
                  txn_signature |->
                      IF account_info.txn_signature = None THEN None
                      ELSE Some(bs58_encode(account_info.txn_signature[1])),
                  timestamp |-> clock])
    ELSE None

\* into_solana_transaction that drops an envelope without body or metadata
into_solana_transaction_DropPartial(transaction_update) ==
    IF transaction_update.payload # None
    THEN LET transaction_info == transaction_update.payload[1]
         IN IF transaction_info.transaction # None /\ transaction_info.meta # None
            THEN Some([signature |-> bs58_encode(transaction_info.signature),
                       slot |-> transaction_update.slot,
                       is_vote |-> transaction_info.is_vote,
                       index |-> transaction_info.index,
                       success |-> transaction_info.meta[1].err = None,
                       fee |-> Some(transaction_info.meta[1].fee),
                       pre_balances |-> transaction_info.meta[1].pre_balances,
                       post_balances |-> transaction_info.meta[1].post_balances,
                       compute_units_consumed |->
                           transaction_info.meta[1].compute_units_consumed,
                       instructions |-> <<>>,
                       log_messages |-> transaction_info.meta[1].log_messages,
                       account_keys |-> <<>>])
            ELSE None
    ELSE None

\* the program ids of the instructions, each once, without the empty ones
RECURSIVE ProgramKeys(_, _)
ProgramKeys(instructions, account_keys) ==
    IF instructions = <<>> THEN <<>>
    ELSE LET front == ProgramKeys(SubSeq(instructions, 1, Len(instructions) - 1),
                                  account_keys)
             id == DecodeInstruction(instructions[Len(instructions)],
                                     account_keys).program_id
         IN IF id = "" \/ \E i \in 1..Len(front) : front[i] = id
            THEN front ELSE Append(front, id)

\* into_solana_transaction whose account_keys are the keys the instructions
\* name as their program
into_solana_transaction_ProgramKeysOnly(transaction_update) ==
    IF transaction_update.payload # None
    THEN LET transaction_info == transaction_update.payload[1]
             both == transaction_info.transaction # None
                     /\ transaction_info.meta # None
             transaction == transaction_info.transaction[1]
             meta == transaction_info.meta[1]
             message == transaction.message[1]
         IN Some([signature |-> bs58_encode(transaction_info.signature),
                  slot |-> transaction_update.slot,
                  is_vote |-> transaction_info.is_vote,
                  index |-> transaction_info.index,
                  success |-> IF both THEN meta.err = None ELSE FALSE,
                  fee |-> IF both THEN Some(meta.fee) ELSE None,
                  pre_balances |-> IF both THEN meta.pre_balances ELSE <<>>,
                  post_balances |-> IF both THEN meta.post_balances ELSE <<>>,
                  compute_units_consumed |->
                      IF both THEN meta.compute_units_consumed ELSE None,
                  instructions |->
                      IF both /\ transaction.message # None
                      THEN DecodeInstructions(message.instructions,
                                              message.account_keys)
                      ELSE <<>>,
                  log_messages |-> IF both THEN meta.log_messages ELSE <<>>,
                  account_keys |->
                      IF both /\ transaction.message # None
                      THEN ProgramKeys(message.instructions, message.account_keys)
                      ELSE <<>>])
    ELSE None

\* into_solana_transaction that reports success whenever body and metadata
\* are present
into_solana_transaction_SuccessAlways(transaction_update) ==
    IF transaction_update.payload # None
    THEN LET transaction_info == transaction_update.payload[1]
             both == transaction_info.transaction # None
                     /\ transaction_info.meta # None
             transaction == transaction_info.transaction[1]
             meta == transaction_info.meta[1]
             message == transaction.message[1]
         IN Some([signature |-> bs58_encode(transaction_info.signature),
                  slot |-> transaction_update.slot,
                  is_vote |-> transaction_info.is_vote,
                  index |-> transaction_info.index,
                  success |-> both,
                  fee |-> IF both THEN Some(meta.fee) ELSE None,
                  pre_balances |-> IF both THEN meta.pre_balances ELSE <<>>,
                  post_balances |-> IF both THEN meta.post_balances ELSE <<>>,
                  compute_units_consumed |->
                      IF both THEN meta.compute_units_consumed ELSE None,
                  instructions |->
                      IF both /\ transaction.message # None
                      THEN DecodeInstructions(message.instructions,
                                              message.account_keys)
                      ELSE <<>>,
                  log_messages |-> IF both THEN meta.log_messages ELSE <<>>,
                  account_keys |->
                      IF both /\ transaction.message # None
                      THEN EncodeKeys(message.account_keys)
                      ELSE <<>>])
    ELSE None

into_solana_transaction(transaction_update) ==
    IF transaction_update.payload # None
    THEN LET transaction_info == transaction_update.payload[1]
             both == transaction_info.transaction # None
                     /\ transaction_info.meta # None
             transaction == transaction_info.transaction[1]
             meta == transaction_info.meta[1]
             message == transaction.message[1]
         IN Some([signature |-> bs58_encode(transaction_info.signature),
                  slot |-> transaction_update.slot,
                  is_vote |-> transaction_info.is_vote,
                  index |-> transaction_info.index,
                  success |-> IF both THEN meta.err = None ELSE FALSE,
                  fee |-> IF both THEN Some(meta.fee) ELSE None,
                  pre_balances |-> IF both THEN meta.pre_balances ELSE <<>>,
                  post_balances |-> IF both THEN meta.post_balances ELSE <<>>,
                  compute_units_consumed |->
                      IF both THEN meta.compute_units_consumed ELSE None,
                  instructions |->
                      IF both /\ transaction.message # None
                      THEN DecodeInstructions(message.instructions,
                                              message.account_keys)
                      ELSE <<>>,
                  log_messages |-> IF both THEN meta.log_messages ELSE <<>>,
                  account_keys |->
                      IF both /\ transaction.message # None
                      THEN EncodeKeys(message.account_keys)
                      ELSE <<>>])
    ELSE None

\* what stream.next() can give: Some(Ok(update)), Some(Err(status)), None
MsgOk(update) == [tag |-> "Ok", update |-> Some(update)]
MsgErr == [tag |-> "Err", update |-> None]
MsgEnd == [tag |-> "End", update |-> None]

(***************************************************************************)
(* The updates the stream can carry (SubscribeUpdate of the yellowstone     *)
(* protocol), as far as the decoders read them.                            *)
(***************************************************************************)
Update(kind, payload, slot) == [kind |-> kind, payload |-> payload, slot |-> slot]

SeqsUpTo(S, n) == UNION {[1..k -> S] : k \in 0..n}

Key1 == <<0, 1>>
Key2 == <<58>>

AccountInfos ==
    {[pubkey |-> Key1, lamports |-> 5, owner |-> Key2, executable |-> FALSE,
      rent_epoch |-> 0, data |-> <<77, 97>>, write_version |-> 1,
      txn_signature |-> s] : s \in {None, Some(<<0, 0, 1>>)}}

KeyLists == {<<>>, <<Key1>>, <<Key1, Key2>>}

CompiledInstructions ==
    {[program_id_index |-> p, accounts |-> a, data |-> <<77>>] :
        p \in {0, 1, 5}, a \in {<<>>, <<0>>, <<1, 5, 0, 1>>}}

TxMessages ==
    {None} \cup
    {Some([account_keys |-> k, instructions |-> i]) :
        k \in KeyLists, i \in SeqsUpTo(CompiledInstructions, MaxInstr)}

TxBodies == {None} \cup {Some([message |-> m]) : m \in TxMessages}

TxMetas ==
    {None} \cup
    {Some([err |-> e, fee |-> 5000, pre_balances |-> <<10>>,
           post_balances |-> <<5>>, compute_units_consumed |-> c,
           log_messages |-> <<"log">>]) :
        e \in {None, Some("InstructionError")}, c \in {None, Some(150)}}

TxInfos ==
    {[signature |-> <<0, 0, 1>>, is_vote |-> FALSE, index |-> 3,
      transaction |-> b, meta |-> m] : b \in TxBodies, m \in TxMetas}

TxUpdates ==
    {Update("Transaction", None, 9)} \cup
    {Update("Transaction", Some(i), 9) : i \in TxInfos}

\* a small sample of every kind of update, for the runs of the reader
SampleUpdates ==
    {Update("Account", None, 9), Update("Transaction", None, 9),
     Update("Slot", None, 9), Update("Ping", None, 0),
     Update("Transaction",
            Some([signature |-> <<0, 0, 1>>, is_vote |-> FALSE, index |-> 3,
                  transaction |-> None, meta |-> None]), 9)}
    \cup {Update("Account", Some(i), 9) : i \in AccountInfos}

StreamMessages == {MsgOk(u) : u \in SampleUpdates} \cup {MsgErr, MsgEnd}

(***************************************************************************)
(* YellowstoneClient: the update handlers and the stream reader.  A        *)
(* handler returns its result and what it decoded and logged.              *)
(***************************************************************************)
Handled(result, events) == [result |-> result, events |-> events]

handle_account_update(account_update, clock) ==
    LET account == into_solana_account(account_update, clock)
    IN IF account # None
       THEN Handled("Ok", <<[kind |-> "Account", body |-> account[1]]>>)
       ELSE Handled("Ok", <<>>)

handle_transaction_update(transaction_update) ==
    LET transaction == into_solana_transaction(transaction_update)
    IN IF transaction # None
       THEN Handled("Ok", <<[kind |-> "Transaction", body |-> transaction[1]]>>)
       ELSE Handled("Ok", <<>>)

handle_slot_update(slot_update) ==
    Handled("Ok", <<[kind |-> "Slot", body |-> slot_update.slot]>>)

process_update(update, clock) ==
    CASE update.kind = "Account" -> handle_account_update(update, clock)
      [] update.kind = "Transaction" -> handle_transaction_update(update)
      [] update.kind = "Slot" -> handle_slot_update(update)
      [] OTHER -> Handled("Ok", <<>>)

\* one turn of the loop of handle_grpc_stream on the message read: whether
\* the function returns, with what, and what was decoded
StreamStep(returns, result, events) ==
    [returns |-> returns, result |-> result, events |-> events]

\* handle_grpc_stream that keeps reading after a stream error
handle_grpc_stream_ContinueOnErr(message, clock) ==
    CASE message.tag = "Ok" ->
           LET r == process_update(message.update[1], clock)
           IN IF r.result = "Err" THEN StreamStep(TRUE, "Err", r.events)
              ELSE StreamStep(FALSE, "None", r.events)
      [] message.tag = "Err" -> StreamStep(FALSE, "None", <<>>)
      [] OTHER -> StreamStep(TRUE, "Ok", <<>>)

handle_grpc_stream(message, clock) ==
    CASE message.tag = "Ok" ->
           LET r == process_update(message.update[1], clock)
           IN IF r.result = "Err" THEN StreamStep(TRUE, "Err", r.events)
              ELSE StreamStep(FALSE, "None", r.events)
      [] message.tag = "Err" -> StreamStep(TRUE, "Err", <<>>)
      [] OTHER -> StreamStep(TRUE, "Ok", <<>>)

\* connect_and_run, lines 65-74: connect, subscribe and send the request
ConnStart(outcome) ==
    /\ conn_pc = "start"
    /\ IF outcome = "Ok"
       THEN /\ conn_pc' = "reading"
            /\ UNCHANGED <<conn_result, conn_end>>
       ELSE /\ conn_pc' = "returned"
            /\ conn_result' = "Err"
            /\ conn_end' = "connect_err"
    /\ UNCHANGED <<auxVars, pipeVars, mainVars, seen, decoded>>

\* connect_and_run, lines 76-78: the reader's turn on the next message; an
\* error of the reader is passed on by `?`, its Ok(()) becomes Ok(())
StreamNext(message) ==
    /\ conn_pc = "reading"
    /\ Len(seen) < MaxUpdates
    /\ LET step == handle_grpc_stream(message, now)
       IN /\ seen' = Append(seen, message)
          /\ decoded' = decoded \o step.events
          /\ IF step.returns
             THEN /\ conn_pc' = "returned"
                  /\ conn_result' = step.result
                  /\ conn_end' = (IF message.tag = "End" THEN "clean_end"
                                  ELSE "stream_err")
             ELSE UNCHANGED <<conn_pc, conn_result, conn_end>>
    /\ UNCHANGED <<auxVars, pipeVars, mainVars>>

(***************************************************************************)
(* Subscriptions (ingest/src/subscriptions.rs): the transaction filter of  *)
(* the subscribe request, and the server applying it to the transactions   *)
(* of the chain.  In the filter an unset field (None) does not constrain;  *)
(* vote = Some(b) and failed = Some(b) pass only the transactions whose    *)
(* flag equals b; a non-empty account_include passes only the              *)
(* transactions that name one of its addresses.                            *)
(***************************************************************************)
\* stands for the four program addresses of lines 32-37
SubscribedPrograms == {Key2}

\* a filter that leaves `failed` unset
create_subscriptions_FailedUnset ==
    [transactions |->
        [account_include |-> {bs58_encode(k) : k \in SubscribedPrograms},
         account_exclude |-> {},
         account_required |-> {},
         vote |-> Some(FALSE),
         failed |-> None]]

create_subscriptions ==
    [transactions |->
        [account_include |-> {bs58_encode(k) : k \in SubscribedPrograms},
         account_exclude |-> {},
         account_required |-> {},
         vote |-> Some(FALSE),
         failed |-> Some(FALSE)]]

\* a transaction of the chain, as the server sees it
ChainTxs ==
    {[is_vote |-> v, failed |-> f, account_keys |-> k] :
        v \in BOOLEAN, f \in BOOLEAN, k \in {<<Key1>>, <<Key1, Key2>>}}

Addresses(tx) == {bs58_encode(tx.account_keys[i]) : i \in 1..Len(tx.account_keys)}

Touches(tx) ==
    Addresses(tx) \cap create_subscriptions.transactions.account_include # {}

FilterPasses(filter, tx) ==
    /\ filter.vote = None \/ filter.vote[1] = tx.is_vote
    /\ filter.failed = None \/ filter.failed[1] = tx.failed
    /\ filter.account_include = {}
          \/ Addresses(tx) \cap filter.account_include # {}
    /\ Addresses(tx) \cap filter.account_exclude = {}
    /\ filter.account_required \subseteq Addresses(tx)

\* the update the server sends for a transaction that passes the filter
UpdateOf(tx) ==
    Update("Transaction",
           Some([signature |-> <<0, 0, 1>>, is_vote |-> tx.is_vote, index |-> 3,
                 transaction |->
                     Some([message |->
                              Some([account_keys |-> tx.account_keys,
                                    instructions |->
                                        <<[program_id_index |-> 0,
                                           accounts |-> <<0>>,
                                           data |-> <<77>>]>>])]),
                 meta |->
                     Some([err |-> IF tx.failed THEN Some("InstructionError")
                                   ELSE None,
                           fee |-> 5000, pre_balances |-> <<10>>,
                           post_balances |-> <<5>>,
                           compute_units_consumed |-> Some(150),
                           log_messages |-> <<"log">>])]),
           9)

\* the chain produces a transaction: the server sends it to the subscriber
\* if it passes the filter of the request, and holds it back otherwise
ChainTransaction(tx) ==
    /\ conn_pc = "reading"
    /\ Len(seen) + Cardinality(withheld) < MaxUpdates
    /\ IF FilterPasses(create_subscriptions.transactions, tx)
       THEN /\ StreamNext(MsgOk(UpdateOf(tx)))
       ELSE /\ withheld' = withheld \cup {tx}
            /\ UNCHANGED <<bootVars, inflight, pipeVars, mainVars, connVars>>

NextSubscribe ==
    \/ \E outcome \in {"Ok", "Err"} : ConnStart(outcome)
    \/ \E tx \in ChainTxs : ChainTransaction(tx)

SubscribeSpec == Init /\ [][NextSubscribe]_vars

Min(a, b) == IF a < b THEN a ELSE b

AnswerMaps == [Tables -> SinkAnswers]

Next ==
    \/ \E kind \in EventKinds : Push(kind)
    \/ CloseChannel
    \/ \E answer \in SinkAnswers : Recv(answer)
    \/ \E answers \in AnswerMaps : Tick(answers)
    \/ \E answers \in AnswerMaps : ChannelClosed(answers)

Spec == Init /\ [][Next]_vars

NextCore ==
    \/ \E outcome \in {"Ok", "Err"} : MainConnect(outcome)
    \/ AccountUpdate
    \/ StreamError
    \/ SleepDone
    \/ StreamEnd

CoreSpec == Init /\ [][NextCore]_vars

\* the stream connector alone, reading a sample of updates
NextConnector ==
    \/ \E outcome \in {"Ok", "Err"} : ConnStart(outcome)
    \/ \E message \in StreamMessages : StreamNext(message)

ConnectorSpec == Init /\ [][NextConnector]_vars

\* the decoding of one transaction update, over every shape of the envelope
DecodeTx(update) ==
    /\ seen = <<>>
    /\ StreamNext(MsgOk(update))

NextDecode ==
    \/ \E outcome \in {"Ok", "Err"} : ConnStart(outcome)
    \/ \E update \in TxUpdates : DecodeTx(update)

DecodeSpec == Init /\ [][NextDecode]_vars

(***************************************************************************)
(* Reading the history.                                                    *)
(***************************************************************************)
Buffer(t) ==
    CASE t = "transactions" -> tx_buffer
      [] t = "accounts" -> account_buffer
      [] t = "slots" -> slot_buffer
      [] OTHER -> <<>>

\* the storage row of the event recorded in a "recv" entry
RowOf(entry) ==
    LET event == entry.rows[1]
    IN CASE event.kind = "Account" -> transform_account(event.body)
         [] event.kind = "Transaction" -> transform_transaction(event.body, entry.at)
         [] OTHER -> transform_slot(event.body, entry.at)

IsWrite(e, t) == e.op = "write" /\ e.table = t
IsRecv(e, t) == e.op = "recv" /\ e.table = t

\* the buffer of table t after the step
BufferAfter(t) ==
    CASE t = "transactions" -> tx_buffer'
      [] t = "accounts" -> account_buffer'
      [] t = "slots" -> slot_buffer'
      [] OTHER -> <<>>

\* rows of table t received from the channel within a piece of history
RECURSIVE Received(_, _)
Received(h, t) ==
    IF h = <<>> THEN <<>>
    ELSE LET front == Received(SubSeq(h, 1, Len(h) - 1), t)
             e == h[Len(h)]
         IN IF IsRecv(e, t) THEN Append(front, RowOf(e)) ELSE front

\* rows of table t stored by the successful batch writes of a piece of history
RECURSIVE Stored(_, _)
Stored(h, t) ==
    IF h = <<>> THEN <<>>
    ELSE LET front == Stored(SubSeq(h, 1, Len(h) - 1), t)
             e == h[Len(h)]
         IN IF IsWrite(e, t) /\ e.ok THEN front \o e.rows ELSE front

\* the events taken from the channel, in order
RECURSIVE Taken(_)
Taken(h) ==
    IF h = <<>> THEN <<>>
    ELSE LET front == Taken(SubSeq(h, 1, Len(h) - 1))
             e == h[Len(h)]
         IN IF e.op = "recv" THEN front \o e.rows ELSE front

Writes(h, t) == {i \in 1..Len(h) : IsWrite(h[i], t)}
FailedWrites(h) == {i \in 1..Len(h) : h[i].op = "write" /\ ~h[i].ok}

\* what one step adds to the history: the trigger, then its storage calls
NewLog == SubSeq(log', Len(log) + 1, Len(log'))

\* the consumer operation of the step, if it is one
Trigger ==
    IF NewLog = <<>> THEN OpEntry("none", "none", <<>>, now) ELSE NewLog[1]

\* buffer of table t at the moment a flush of this step reads it
PreFlush(t) ==
    IF IsRecv(Trigger, t) THEN Append(Buffer(t), RowOf(Trigger))
    ELSE Buffer(t)

\* tables flushed before table t by flush_all
Earlier(t) ==
    CASE t = "transactions" -> {}
      [] t = "accounts" -> {"transactions"}
      [] OTHER -> {"transactions", "accounts"}

\* the step calls the flush of table t
Flushed(t) ==
    IF Trigger.op = "recv"
    THEN Trigger.table = t /\ Len(PreFlush(t)) >= batch_size
    ELSE Trigger.op \in {"tick", "closed"} /\ \A i \in FailedWrites(NewLog) : NewLog[i].table \notin Earlier(t)

(***************************************************************************)
(* Normal operation: the channel stays open, the timer keeps ticking as    *)
(* long as a row is buffered, and the sink fails at most MaxFailures       *)
(* batch writes before it recovers.                                        *)
(***************************************************************************)
SinkMayFail == Cardinality(FailedWrites(log)) < MaxFailures

LivePush(kind) ==
    /\ Len(sent) < MaxLiveEvents
    /\ Push(kind)

LiveRecv(answer) ==
    /\ answer = "Ok" \/ SinkMayFail
    /\ Recv(answer)

LiveTick(answers) ==
    /\ pc = "running"
    /\ \/ now < MaxTicks
       \/ /\ \E t \in Tables : Buffer(t) # <<>>
          /\ now < MaxTicks + MaxLiveEvents + MaxFailures
    /\ SinkMayFail \/ \A t \in Tables : answers[t] = "Ok"
    /\ now' = now + 1
    /\ Apply(flush_all(Self, answers, now'), OpEntry("tick", "none", <<>>, now'))
    /\ UNCHANGED <<chan, closed, sent, pc, mainVars, connVars, auxVars>>

\* the pipeline in normal operation, with a timer that keeps ticking
NextLive ==
    \/ \E kind \in EventKinds : LivePush(kind)
    \/ \E answer \in SinkAnswers : LiveRecv(answer)
    \/ \E answers \in AnswerMaps : LiveTick(answers)

LiveSpec ==
    /\ Init
    /\ [][NextLive]_vars
    /\ WF_vars(\E answers \in AnswerMaps : LiveTick(answers))

(***************************************************************************)
(* Startup: the process is started on a database that holds any subset of  *)
(* the tables, each with a row written by an earlier run; the pipeline     *)
(* runs only with the Processor that Processor::new returned.              *)
(***************************************************************************)
OldRows(t) ==
    CASE t = "transactions" ->
           <<transform_transaction(MkEvent("Transaction", 9, 0).body, 0)>>
      [] t = "accounts" -> <<transform_account(MkEvent("Account", 9, 0).body)>>
      [] OTHER -> <<transform_slot(MkEvent("Slot", 9, 0).body, 0)>>

InitialStores ==
    {[t \in Tables |-> IF t \in present THEN Some(OldRows(t)) ELSE None] :
        present \in SUBSET Tables}

StartupInit ==
    /\ InitPipeline
    /\ store \in InitialStores
    /\ proc_state = "none"
    /\ starts = 0
    /\ boot_log = <<>>

\* a start of the process: Processor::new runs; what an earlier process
\* held in memory is gone
ProcessorNew(outcomes) ==
    /\ starts < MaxStarts
    /\ LET r == Processor_new(store, outcomes, starts + 1)
       IN /\ store' = r.store
          /\ proc_state' = (IF r.result = "Ok" THEN "built" ELSE "failed")
          /\ boot_log' = boot_log \o r.calls
          /\ tx_buffer' = r.p.tx_buffer
          /\ account_buffer' = r.p.account_buffer
          /\ slot_buffer' = r.p.slot_buffer
          /\ last_result' = "None"
    /\ starts' = starts + 1
    /\ chan' = <<>>
    /\ UNCHANGED <<log, closed, sent, pc, now, mainVars, connVars, inflight,
                   withheld>>

StartPush(kind) ==
    /\ proc_state = "built"
    /\ Len(sent) < MaxLiveEvents
    /\ Push(kind)

StartRecv(answer) ==
    /\ proc_state = "built"
    /\ Recv(answer)

NextStartup ==
    \/ \E outcomes \in CreateAnswers : ProcessorNew(outcomes)
    \/ \E kind \in EventKinds : StartPush(kind)
    \/ \E answer \in SinkAnswers : StartRecv(answer)

StartupSpec == StartupInit /\ [][NextStartup]_vars

\* the CREATE TABLE statements of the latest start
LastBoot == SelectSeq(boot_log, LAMBDA e : e.run = starts)

(***************************************************************************)
(* The Processor at the grain of its await points: a flush starts its      *)
(* batch write (flush_* up to `.await`), and the write returns later       *)
(* (the match on its result).  process_event and the flushes take          *)
(* `&mut self`, so the Processor is borrowed until the call returns.       *)
(***************************************************************************)
FlushOrder == <<"transactions", "accounts", "slots">>

BufferOf(p, t) ==
    CASE t = "transactions" -> p.tx_buffer
      [] t = "accounts" -> p.account_buffer
      [] t = "slots" -> p.slot_buffer
      [] OTHER -> <<>>

\* the push of process_event: the row of the event at the end of its buffer
Buffered(p, event, clock) ==
    CASE event.kind = "Account" ->
           [p EXCEPT !.account_buffer = Append(@, transform_account(event.body))]
      [] event.kind = "Transaction" ->
           [p EXCEPT !.tx_buffer = Append(@, transform_transaction(event.body, clock))]
      [] event.kind = "Slot" ->
           [p EXCEPT !.slot_buffer = Append(@, transform_slot(event.body, clock))]
      [] OTHER -> p

\* clear() of the buffer of table t
Cleared(p, t) ==
    CASE t = "transactions" -> [p EXCEPT !.tx_buffer = <<>>]
      [] t = "accounts" -> [p EXCEPT !.account_buffer = <<>>]
      [] t = "slots" -> [p EXCEPT !.slot_buffer = <<>>]
      [] OTHER -> p

\* the flushes of the given tables are called in order: an empty buffer
\* returns at once, the first non-empty one hands its rows to the batch
\* insert and awaits it; rest are the flushes that follow it
RECURSIVE StartFlush(_, _)
StartFlush(p, tables) ==
    IF tables = <<>> THEN None
    ELSE IF BufferOf(p, tables[1]) = <<>> THEN StartFlush(p, Tail(tables))
    ELSE Some([table |-> tables[1], rows |-> BufferOf(p, tables[1]),
               rest |-> Tail(tables)])

\* no exclusive borrow is ever held
Borrowed_Never == FALSE

\* process_event or a flush holds `&mut self` across its pending batch write
Borrowed == inflight # None

SetProc(p) ==
    /\ tx_buffer' = p.tx_buffer
    /\ account_buffer' = p.account_buffer
    /\ slot_buffer' = p.slot_buffer

\* the consumer takes an event: process_event up to its first await
StepRecv ==
    /\ pc = "running"
    /\ chan # <<>>
    /\ ~Borrowed
    /\ LET event == Head(chan)
           t == TableOf(event.kind)
           q == Buffered(Self, event, now)
           started == IF t \in Tables /\ Len(BufferOf(q, t)) >= batch_size
                      THEN StartFlush(q, <<t>>) ELSE None
       IN /\ SetProc(q)
          /\ inflight' = started
          /\ last_result' = (IF started = None THEN "Ok" ELSE last_result)
          /\ log' = Append(log, OpEntry("recv", t, <<event>>, now))
    /\ chan' = Tail(chan)
    /\ UNCHANGED <<closed, sent, pc, now, mainVars, connVars, bootVars,
                   withheld>>

\* a tick that gives up the pending batch write and starts flush_all anew
StepTick_AbandonWrite ==
    /\ pc = "running"
    /\ now < MaxTicks
    /\ now' = now + 1
    /\ LET started == StartFlush(Self, FlushOrder)
       IN /\ inflight' = started
          /\ last_result' = (IF started = None THEN "Ok" ELSE last_result)
    /\ log' = Append(log, OpEntry("tick", "none", <<>>, now'))
    /\ UNCHANGED <<tx_buffer, account_buffer, slot_buffer, chan, closed, sent,
                   pc, mainVars, connVars, bootVars, withheld>>

\* the timer ticks: flush_all up to its first await
StepTick ==
    /\ pc = "running"
    /\ ~Borrowed
    /\ now < MaxTicks
    /\ now' = now + 1
    /\ LET started == StartFlush(Self, FlushOrder)
       IN /\ inflight' = started
          /\ last_result' = (IF started = None THEN "Ok" ELSE last_result)
    /\ log' = Append(log, OpEntry("tick", "none", <<>>, now'))
    /\ UNCHANGED <<tx_buffer, account_buffer, slot_buffer, chan, closed, sent,
                   pc, mainVars, connVars, bootVars, withheld>>

\* the pending batch write returns: Ok clears the buffer and goes on to the
\* flushes that follow, Err returns the error with the buffer as it is
WriteReturns(answer) ==
    /\ inflight # None
    /\ LET w == inflight[1]
       IN /\ log' = Append(log, WriteEntry(w.table, w.rows, answer, now))
          /\ IF answer = "Ok"
             THEN LET q == Cleared(Self, w.table)
                      started == StartFlush(q, w.rest)
                  IN /\ SetProc(q)
                     /\ inflight' = started
                     /\ last_result' = (IF started = None THEN "Ok"
                                        ELSE last_result)
             ELSE /\ SetProc(Self)
                  /\ inflight' = None
                  /\ last_result' = "Err"
    /\ UNCHANGED <<chan, closed, sent, pc, now, mainVars, connVars, bootVars,
                   withheld>>

NextStep ==
    \/ \E kind \in EventKinds : Push(kind)
    \/ StepRecv
    \/ StepTick
    \/ \E answer \in SinkAnswers : WriteReturns(answer)

StepSpec == Init /\ [][NextStep]_vars

(***************************************************************************)
(* Shutdown: the consumer keeps polling its channel, so a queued event is  *)
(* eventually taken and a closed, drained channel is eventually observed;  *)
(* every storage write returns.                                            *)
(***************************************************************************)
NextShutdown ==
    \/ \E kind \in EventKinds : LivePush(kind)
    \/ CloseChannel
    \/ \E answer \in SinkAnswers : Recv(answer)
    \/ \E answers \in AnswerMaps : Tick(answers)
    \/ \E answers \in AnswerMaps : ChannelClosed(answers)

ShutdownSpec ==
    /\ Init
    /\ [][NextShutdown]_vars
    /\ WF_vars(\E answer \in SinkAnswers : Recv(answer))
    /\ WF_vars(\E answers \in AnswerMaps : ChannelClosed(answers))

(***************************************************************************)
(* C1  Retain on failure: whenever the batch write of a flush fails, the   *)
(* buffer of that table is after the step exactly the sequence the flush   *)
(* read (nothing removed, added or reordered) and the call returns the     *)
(* error.                                                                  *)
(***************************************************************************)
C1_RetainOnFailure ==
    [][\A i \in FailedWrites(NewLog) :
          /\ BufferAfter(NewLog[i].table) = PreFlush(NewLog[i].table)
          /\ last_result' = "Err"]_vars

\* a flush has just failed on a buffer of two rows or more, which is retained
C1_Witness ==
    /\ log # <<>>
    /\ log[Len(log)].op = "write"
    /\ ~log[Len(log)].ok
    /\ Len(log[Len(log)].rows) >= 2
    /\ Buffer(log[Len(log)].table) = log[Len(log)].rows
    /\ last_result = "Err"

(***************************************************************************)
(* C2  Clear only on success: a flush of a non-empty buffer issues exactly *)
(* one batch write, whose rows are the whole buffer in buffer order; the   *)
(* buffer is empty afterwards if and only if that write succeeded; without *)
(* a write the buffer loses nothing.                                       *)
(***************************************************************************)
C2_ClearOnlyOnSuccess ==
    [][\A t \in Tables :
          LET ws == Writes(NewLog, t)
          IN /\ Cardinality(ws) <= 1
             /\ (Flushed(t) /\ PreFlush(t) # <<>>) => Cardinality(ws) = 1
             /\ \A i \in ws :
                   /\ NewLog[i].rows = PreFlush(t)
                   /\ (BufferAfter(t) = <<>>) <=> NewLog[i].ok
             /\ ws = {} => BufferAfter(t) = PreFlush(t)]_vars

\* a write of two rows or more has just succeeded and emptied its buffer
C2_Witness ==
    /\ log # <<>>
    /\ log[Len(log)].op = "write"
    /\ log[Len(log)].ok
    /\ Len(log[Len(log)].rows) >= 2
    /\ Buffer(log[Len(log)].table) = <<>>

(***************************************************************************)
(* C3  Timer-triggered flush: when the run starts with M events of one     *)
(* table, 1 <= M < batch_size, and then a timer tick, the tick issues      *)
(* exactly one batch write; it is for that table and carries exactly the   *)
(* M rows, in order.                                                       *)
(***************************************************************************)
C3_TimerFlush ==
    \A t \in Tables, M \in 1..(batch_size - 1) :
        (/\ Len(log) >= M + 1
         /\ \A i \in 1..M : IsRecv(log[i], t)
         /\ log[M + 1].op = "tick")
        => /\ Len(log) >= M + 2
           /\ IsWrite(log[M + 2], t)
           /\ log[M + 2].rows = Received(SubSeq(log, 1, M), t)
           /\ Len(log[M + 2].rows) = M
           /\ Len(log) >= M + 3 => log[M + 3].op # "write"

\* M events of one table, a tick, one successful write of the M rows
C3_Witness ==
    \E t \in Tables, M \in 1..(batch_size - 1) :
        /\ Len(log) = M + 2
        /\ \A i \in 1..M : IsRecv(log[i], t)
        /\ log[M + 1].op = "tick"
        /\ IsWrite(log[M + 2], t)
        /\ log[M + 2].ok
        /\ Buffer(t) = <<>>

(***************************************************************************)
(* C4  Size-triggered flush.  As stated: every batch write triggered by an *)
(* event arrival carries exactly batch_size rows.                          *)
(***************************************************************************)
C4_Original ==
    \A i \in 2..Len(log) :
        (log[i].op = "write" /\ log[i - 1].op = "recv")
        => Len(log[i].rows) = batch_size

(***************************************************************************)
(* C4 (amended)  An event arrival issues a batch write exactly when it     *)
(* brings the buffer of its table to batch_size rows or more; the write is *)
(* made within the processing of that event, is the only one, is for that  *)
(* table and carries the whole buffer: exactly batch_size rows when the    *)
(* buffer held fewer than batch_size rows before the event, more when a    *)
(* failed write had left it at batch_size or more.                         *)
(***************************************************************************)
C4_SizeFlush ==
    [][Trigger.op = "recv" =>
          LET t == Trigger.table
          IN IF t \in Tables /\ Len(Buffer(t)) + 1 >= batch_size
             THEN /\ Len(NewLog) = 2
                  /\ IsWrite(NewLog[2], t)
                  /\ NewLog[2].rows = PreFlush(t)
                  /\ Len(NewLog[2].rows) = Len(Buffer(t)) + 1
                  /\ Len(Buffer(t)) < batch_size
                        => Len(NewLog[2].rows) = batch_size
             ELSE Len(NewLog) = 1]_vars

\* an event arrival has just written a batch of exactly batch_size rows
C4_Witness ==
    /\ Len(log) >= 2
    /\ log[Len(log)].op = "write"
    /\ log[Len(log) - 1].op = "recv"
    /\ Len(log[Len(log)].rows) = batch_size
    /\ log[Len(log)].ok

(***************************************************************************)
(* C5  Retry after a failure: the write that follows a failed write of a   *)
(* table carries the rows of the failed attempt followed by the rows of    *)
(* every event of that table taken since, each once, in arrival order.     *)
(***************************************************************************)
C5_RetryAfterFailure ==
    \A t \in Tables :
        \A i \in Writes(log, t), j \in Writes(log, t) :
            (/\ i < j
             /\ ~log[i].ok
             /\ \A k \in Writes(log, t) : ~(i < k /\ k < j))
            => log[j].rows = log[i].rows \o Received(SubSeq(log, i + 1, j - 1), t)

\* the first write of a table failed, an event of the table arrived, and the
\* next write of the table succeeded
C5_Witness ==
    \E t \in Tables :
        \E i \in Writes(log, t), j \in Writes(log, t) :
            /\ i < j
            /\ \A k \in Writes(log, t) : k >= i /\ ~(i < k /\ k < j)
            /\ ~log[i].ok
            /\ log[j].ok
            /\ Received(SubSeq(log, i + 1, j - 1), t) # <<>>
            /\ Len(log[j].rows) > Len(log[i].rows)

(***************************************************************************)
(* C6  Timer tick flushes every type: on each timer tick, a batch write is *)
(* attempted for every table whose buffer is non-empty at the tick.        *)
(***************************************************************************)
C6_TickFlushesEvery ==
    [][Trigger.op = "tick" =>
          \A t \in Tables : Buffer(t) # <<>> => Writes(NewLog, t) # {}]_vars

(***************************************************************************)
(* C7  No loss, no duplication: once the channel is closed and the         *)
(* consumer has exited, if no batch write failed, the batches written to   *)
(* each table, concatenated, are the rows of the events of that table      *)
(* taken from the channel, each once and in order, every pushed event has  *)
(* been taken, and a table that received no event got no write.            *)
(***************************************************************************)
C7_NoLossNoDuplication ==
    (pc = "exited" /\ FailedWrites(log) = {})
    => /\ Taken(log) = sent
       /\ \A t \in Tables :
             /\ Stored(log, t) = Received(log, t)
             /\ Received(log, t) = <<>> => Writes(log, t) = {}

\* the consumer has exited without a failed write: one table got its rows in
\* two batches or more, another one got a batch, and a third got no write
C7_Witness ==
    /\ pc = "exited"
    /\ FailedWrites(log) = {}
    /\ \E t \in Tables : Cardinality(Writes(log, t)) >= 2
    /\ \E t \in Tables : Cardinality(Writes(log, t)) = 1
    /\ \E t \in Tables : Writes(log, t) = {}

(***************************************************************************)
(* C8  Graceful shutdown: when the channel is closed, the consumer makes   *)
(* one final flush-all, exactly one batch write for each table whose       *)
(* buffer is non-empty and none for an empty one, and then exits.          *)
(***************************************************************************)
C8_GracefulShutdown ==
    [][Trigger.op = "closed" =>
          /\ pc' = "exited"
          /\ \A t \in Tables :
                Cardinality(Writes(NewLog, t)) = (IF Buffer(t) # <<>> THEN 1 ELSE 0)]_vars

(***************************************************************************)
(* C9  Per-type ordering: the events are taken from the channel in the     *)
(* order they were pushed; every batch write of a table carries, in        *)
(* arrival order, exactly the rows of that table taken so far and not yet  *)
(* stored; so the rows stored in a table are always a prefix of the rows   *)
(* received, across batches and across retried flushes.                    *)
(***************************************************************************)
C9_PerTypeOrdering ==
    /\ Taken(log) \o chan = sent
    /\ \A t \in Tables :
          /\ \A i \in Writes(log, t) :
                LET got == Received(SubSeq(log, 1, i), t)
                    kept == Stored(SubSeq(log, 1, i - 1), t)
                IN log[i].rows = SubSeq(got, Len(kept) + 1, Len(got))
          /\ Stored(log, t) \o Buffer(t) = Received(log, t)

\* a table holds rows of two successful batches, one of them a retry
C9_Witness ==
    \E t \in Tables :
        /\ Cardinality({i \in Writes(log, t) : log[i].ok}) >= 2
        /\ \E i \in Writes(log, t) : ~log[i].ok
        /\ Len(Stored(log, t)) >= 3

(***************************************************************************)
(* C10  Reconnect backoff sequence: the wait after the N-th consecutive    *)
(* termination of the stream is min(2^(N-1), 60) time units                *)
(* (1, 2, 4, 8, 16, 32, 60, 60, ...).                                      *)
(***************************************************************************)
C10_BackoffSequence ==
    stream_errors >= 1 => wait = Min(2 ^ (stream_errors - 1), 60)

(***************************************************************************)
(* C11  No terminal state: the process is never ended by a connection      *)
(* failure or by the end of the stream; after every termination of the     *)
(* stream a new connection attempt follows.                                *)
(***************************************************************************)
C11_NoTerminalState ==
    main_pc # "exited"

\* the kinds of a sequence of events
KindsOf(s) == [i \in 1..Len(s) |-> s[i].kind]

\* the messages read from the stream that are stream errors
StreamErrorsRead == {i \in 1..Len(seen) : seen[i].tag = "Err"}

C13_CleanEndReported ==
    conn_end = "clean_end" => conn_result # "Ok"

(***************************************************************************)
(* C14  Every event the connector decodes from an Account, Transaction or  *)
(* Slot update has been pushed onto the channel, once and in the order the *)
(* updates were read.                                                      *)
(***************************************************************************)
C14_DecodedEventsPushed ==
    KindsOf(sent) = KindsOf(decoded)

(***************************************************************************)
(* C15  Backpressure without drop: the channel never holds more than       *)
(* ChannelCap events; every pushed event is either still in the channel or *)
(* was taken by the consumer, in push order; nothing is pushed while the   *)
(* channel is full, and a push only appends.                               *)
(***************************************************************************)
C15_BackpressureNoDrop ==
    /\ [](Len(chan) <= ChannelCap /\ sent = Taken(log) \o chan)
    /\ [][sent' # sent =>
             /\ Len(chan) < ChannelCap
             /\ \E event \in {sent'[Len(sent')]} :
                   /\ sent' = Append(sent, event)
                   /\ chan' = Append(chan, event)]_vars

\* the channel is full again after the consumer took an event from a full
\* channel
C15_Witness ==
    /\ Len(chan) = ChannelCap
    /\ Len(sent) > ChannelCap
    /\ Len(Taken(log)) >= 1

(***************************************************************************)
(* C16  Eventual persistence: in normal operation, again and again the     *)
(* rows stored in every table are exactly the rows of the events of that   *)
(* table taken from the channel so far, so every event taken is eventually *)
(* stored; and a successful batch write of a table leaves no row of that   *)
(* table behind, so a row waiting below the size threshold is stored by    *)
(* the first successful flush of its table.                                *)
(***************************************************************************)
C16_EventualPersistence ==
    /\ []<>(\A t \in Tables : Stored(log, t) = Received(log, t))
    /\ [](\A t \in Tables : \A i \in Writes(log, t) :
             log[i].ok => Stored(SubSeq(log, 1, i), t) = Received(SubSeq(log, 1, i), t))

\* a row below the size threshold was refused by the sink at a tick and
\* stored by a later tick
C16_Witness ==
    \E t \in Tables :
        /\ Received(log, t) # <<>>
        /\ Stored(log, t) = Received(log, t)
        /\ \E i \in Writes(log, t) :
              /\ ~log[i].ok
              /\ Len(log[i].rows) < batch_size
        /\ log[Len(log)].op = "write"
        /\ log[Len(log)].at > MaxTicks

(***************************************************************************)
(* C17  A storage write failure is never fatal and never sheds data: a     *)
(* step with a failed batch write that is not the shutdown leaves the      *)
(* consumer running; and as long as no write of a table has succeeded, the *)
(* buffer of that table holds the row of every event of that table taken   *)
(* so far, in order, whatever its length.                                  *)
(***************************************************************************)
C17_FailureNotFatalNoShedding ==
    /\ [](\A t \in Tables :
             (\A i \in Writes(log, t) : ~log[i].ok) => Buffer(t) = Received(log, t))
    /\ [][(FailedWrites(NewLog) # {} /\ Trigger.op # "closed")
             => pc' = "running"]_vars

\* every write of a table has failed, twice or more, and its buffer has
\* grown beyond batch_size while the consumer is still running
C17_Witness ==
    \E t \in Tables :
        /\ Cardinality(Writes(log, t)) >= 2
        /\ \A i \in Writes(log, t) : ~log[i].ok
        /\ Len(Buffer(t)) > batch_size
        /\ Buffer(t) = Received(log, t)
        /\ pc = "running"

(***************************************************************************)
(* C18  Flushing an empty buffer is a no-op: the flush of a table whose    *)
(* buffer is empty returns Ok, makes no storage call and changes no        *)
(* buffer, and a batch insert of no rows returns Ok without a storage      *)
(* call; so a flush-all makes no write for an empty table, and with all    *)
(* buffers empty it makes no write at all and returns Ok.                  *)
(***************************************************************************)
C18_EmptyFlushNoOp ==
    /\ [](\A answer \in SinkAnswers :
             /\ tx_buffer = <<>>
                   => flush_transactions(Self, answer, now) = Ret(Self, "Ok", <<>>)
             /\ account_buffer = <<>>
                   => flush_accounts(Self, answer, now) = Ret(Self, "Ok", <<>>)
             /\ slot_buffer = <<>>
                   => flush_slots(Self, answer, now) = Ret(Self, "Ok", <<>>)
             /\ batch_insert_transactions(<<>>, answer, now).calls = <<>>
             /\ batch_insert_accounts(<<>>, answer, now).calls = <<>>
             /\ batch_insert_slots(<<>>, answer, now).calls = <<>>
             /\ batch_insert_slots(<<>>, answer, now).result = "Ok")
    /\ [][Trigger.op \in {"tick", "closed"} =>
             /\ \A t \in Tables :
                   Buffer(t) = <<>>
                   => (Writes(NewLog, t) = {} /\ BufferAfter(t) = <<>>)
             /\ (\A t \in Tables : Buffer(t) = <<>>)
                   => (Len(NewLog) = 1 /\ last_result' = "Ok")]_vars

\* a flush-all has just written the accounts and the slots past a
\* transaction buffer that was empty
C18_Witness ==
    /\ Len(log) >= 5
    /\ log[Len(log) - 2].op \in {"tick", "closed"}
    /\ IsWrite(log[Len(log) - 1], "accounts")
    /\ IsWrite(log[Len(log)], "slots")
    /\ Received(log, "transactions") = <<>>
    /\ last_result = "Ok"

C20_EnvelopeYieldsEvent ==
    \A i \in 1..Len(seen) :
        (Len(seen) = 1 /\ seen[i].tag = "Ok" /\ seen[i].update[1].kind = "Transaction")
        => LET update == seen[i].update[1]
           IN IF update.payload = None
              THEN decoded = <<>>
              ELSE /\ Len(decoded) = 1
                   /\ decoded[1].kind = "Transaction"
                   /\ decoded[1].body.slot = update.slot
                   /\ (update.payload[1].transaction = None
                       \/ update.payload[1].meta = None)
                      => /\ decoded[1].body.success = FALSE
                         /\ decoded[1].body.fee = None
                         /\ decoded[1].body.compute_units_consumed = None
                         /\ decoded[1].body.pre_balances = <<>>
                         /\ decoded[1].body.post_balances = <<>>
                         /\ decoded[1].body.log_messages = <<>>
                         /\ decoded[1].body.account_keys = <<>>
                         /\ decoded[1].body.instructions = <<>>

\* an envelope with a body of two instructions and two keys but without
\* metadata was decoded into one event with the default fields
C20_Witness ==
    /\ Len(seen) = 1
    /\ seen[1].tag = "Ok"
    /\ seen[1].update[1].kind = "Transaction"
    /\ seen[1].update[1].payload # None
    /\ seen[1].update[1].payload[1].meta = None
    /\ seen[1].update[1].payload[1].transaction # None
    /\ seen[1].update[1].payload[1].transaction[1].message # None
    /\ Len(seen[1].update[1].payload[1].transaction[1].message[1].instructions) = 2
    /\ Len(seen[1].update[1].payload[1].transaction[1].message[1].account_keys) = 2
    /\ Len(decoded) = 1
    /\ decoded[1].body.signature = "112"
    /\ decoded[1].body.success = FALSE
    /\ decoded[1].body.instructions = <<>>
    /\ decoded[1].body.account_keys = <<>>

\* the step reads a message from the stream
ReadsMessage == Len(seen') = Len(seen) + 1

\* the message read is an update of the given kind with or without payload
ReadsUpdate(kind, present) ==
    /\ ReadsMessage
    /\ seen'[Len(seen')].tag = "Ok"
    /\ seen'[Len(seen')].update[1].kind = kind
    /\ (seen'[Len(seen')].update[1].payload # None) = present

(***************************************************************************)
(* C21  An account update without its inner account sub-message is         *)
(* skipped: reading it decodes no event, returns no error, leaves the      *)
(* reader reading, and nothing reaches the channel or the storage; the     *)
(* decoder gives no account for it, neither empty nor defaulted.           *)
(***************************************************************************)
C21_AbsentAccountSkipped ==
    /\ [](into_solana_account(Update("Account", None, 9), now) = None)
    /\ [][ReadsUpdate("Account", FALSE) =>
             /\ decoded' = decoded
             /\ conn_pc' = "reading"
             /\ conn_result' = "None"
             /\ conn_end' = "none"
             /\ chan' = chan
             /\ sent' = sent
             /\ log' = log]_vars

\* the reader skipped an account update without account and decoded the
\* account update that followed it
C21_Witness ==
    /\ Len(seen) = 2
    /\ seen[1].tag = "Ok"
    /\ seen[1].update[1].kind = "Account"
    /\ seen[1].update[1].payload = None
    /\ seen[2].tag = "Ok"
    /\ seen[2].update[1].kind = "Account"
    /\ Len(decoded) = 1
    /\ decoded[1].kind = "Account"
    /\ decoded[1].body.pubkey = "12"
    /\ conn_pc = "reading"

\* one transaction update with its envelope has been read and decoded
TxRead ==
    /\ Len(seen) = 1
    /\ seen[1].tag = "Ok"
    /\ seen[1].update[1].kind = "Transaction"
    /\ seen[1].update[1].payload # None

\* the parts of the transaction update read, and the event decoded from it
TxBody == seen[1].update[1].payload[1].transaction
TxMeta == seen[1].update[1].payload[1].meta
TxMessage == TxBody[1].message
TxEvent == decoded[1].body

\* the program id the event must carry for a compiled instruction
ExpectedProgramId(instruction, account_keys) ==
    IF instruction.program_id_index < Len(account_keys)
    THEN bs58_encode(account_keys[instruction.program_id_index + 1])
    ELSE ""

\* the event has one instruction per instruction of the message, in order,
\* each with the expected program id
ProgramIdsDecoded ==
    /\ Len(decoded) = 1
    /\ Len(TxEvent.instructions) = Len(TxMessage[1].instructions)
    /\ \A j \in 1..Len(TxMessage[1].instructions) :
          TxEvent.instructions[j].program_id
              = ExpectedProgramId(TxMessage[1].instructions[j],
                                  TxMessage[1].account_keys)

(***************************************************************************)
(* C22  As stated: for every instruction of a transaction whose body is    *)
(* present, the event carries an instruction whose program_id is the       *)
(* base58 encoding of account_keys[index] when the program-id index is in  *)
(* range and the empty string when it is not.                              *)
(***************************************************************************)
C22_Original ==
    (TxRead /\ TxBody # None /\ TxMessage # None) => ProgramIdsDecoded

(***************************************************************************)
(* C22 (amended)  When the body and the metadata of a transaction are both *)
(* present, the event carries one instruction per instruction of the       *)
(* message, in order; its program_id is the base58 encoding of             *)
(* account_keys[index] when the program-id index is in range and the empty *)
(* string when it is not; decoding always completes with an event.  When   *)
(* the metadata is absent the event carries no instruction.                *)
(***************************************************************************)
C22_ProgramIdIndex ==
    TxRead =>
        /\ Len(decoded) = 1
        /\ (TxBody # None /\ TxMessage # None /\ TxMeta # None)
              => ProgramIdsDecoded
        /\ (TxBody = None \/ TxMeta = None) => TxEvent.instructions = <<>>

\* a transaction with metadata, two keys and two instructions, one with its
\* program-id index in range and one out of range
C22_Witness ==
    /\ TxRead
    /\ TxBody # None
    /\ TxMeta # None
    /\ TxMessage # None
    /\ Len(TxMessage[1].account_keys) = 2
    /\ Len(TxMessage[1].instructions) = 2
    /\ TxMessage[1].instructions[1].program_id_index = 1
    /\ TxMessage[1].instructions[2].program_id_index = 5
    /\ Len(decoded) = 1
    /\ TxEvent.instructions[1].program_id = "21"
    /\ TxEvent.instructions[2].program_id = ""

\* the program-id indices of the message that are in range
ProgramIndices ==
    {TxMessage[1].instructions[j].program_id_index :
        j \in {k \in 1..Len(TxMessage[1].instructions) :
                  TxMessage[1].instructions[k].program_id_index
                      < Len(TxMessage[1].account_keys)}}

(***************************************************************************)
(* C23  As stated: for every transaction event whose upstream body is      *)
(* present, the length of account_keys equals the number of distinct       *)
(* in-range indices that the instructions reference as program-id index.   *)
(***************************************************************************)
C23_Original ==
    (TxRead /\ TxBody # None /\ TxMessage # None)
        => (Len(decoded) = 1
            /\ Len(TxEvent.account_keys) = Cardinality(ProgramIndices))

(***************************************************************************)
(* C23 (amended)  When the body, its message and the metadata of a         *)
(* transaction are present, account_keys of the event is the base58        *)
(* encoding of every account key of the message, in message order, so its  *)
(* length is the number of account keys of the message whatever the        *)
(* instructions reference; otherwise account_keys is empty.                *)
(***************************************************************************)
C23_AccountKeys ==
    TxRead =>
        /\ Len(decoded) = 1
        /\ IF TxBody # None /\ TxMeta # None /\ TxMessage # None
           THEN /\ Len(TxEvent.account_keys) = Len(TxMessage[1].account_keys)
                /\ \A i \in 1..Len(TxMessage[1].account_keys) :
                      TxEvent.account_keys[i]
                          = bs58_encode(TxMessage[1].account_keys[i])
           ELSE TxEvent.account_keys = <<>>

\* a transaction with metadata and two keys whose only instruction names
\* the first key as its program: the event lists both keys
C23_Witness ==
    /\ TxRead
    /\ TxBody # None
    /\ TxMeta # None
    /\ TxMessage # None
    /\ Len(TxMessage[1].instructions) = 1
    /\ ProgramIndices = {0}
    /\ Len(decoded) = 1
    /\ TxEvent.account_keys = <<"12", "21">>

(***************************************************************************)
(* C24  When the body and the metadata of a transaction are both present,  *)
(* success of the event is true exactly when the metadata carries no error *)
(* and false exactly when it carries one.                                  *)
(***************************************************************************)
C24_SuccessFromError ==
    (TxRead /\ TxBody # None /\ TxMeta # None)
        => (Len(decoded) = 1 /\ (TxEvent.success <=> TxMeta[1].err = None))

\* a transaction with body and an error in its metadata gave an event with
\* success = false and the fee of the metadata
C24_Witness ==
    /\ TxRead
    /\ TxBody # None
    /\ TxMeta # None
    /\ TxMeta[1].err # None
    /\ Len(decoded) = 1
    /\ TxEvent.success = FALSE
    /\ TxEvent.fee = Some(5000)

(***************************************************************************)
(* C25  A Block event is a no-op for the processor: process_event on a     *)
(* Block returns Ok with the three buffers unchanged and without a storage *)
(* call, whatever the buffers hold.                                        *)
(***************************************************************************)
C25_BlockNoOp ==
    /\ [](\A answer \in SinkAnswers :
             process_event(Self, MkEvent("Block", 1, now), answer, now)
                 = Ret(Self, "Ok", <<>>))
    /\ [][(Trigger.op = "recv" /\ Trigger.rows[1].kind = "Block") =>
             /\ tx_buffer' = tx_buffer
             /\ account_buffer' = account_buffer
             /\ slot_buffer' = slot_buffer
             /\ Len(NewLog) = 1
             /\ last_result' = "Ok"]_vars

\* a Block has just been processed while a buffer was one row short of its
\* size threshold
C25_Witness ==
    /\ log # <<>>
    /\ log[Len(log)].op = "recv"
    /\ log[Len(log)].rows[1].kind = "Block"
    /\ \E t \in Tables : Len(Buffer(t)) = batch_size - 1
    /\ last_result = "Ok"

\* the received events of the history that are transformed into a row
Transformed == {i \in 1..Len(log) : log[i].op = "recv" /\ log[i].table \in Tables}

(***************************************************************************)
(* C26  The Transformer is deterministic: applying it again, now, to an    *)
(* event that was transformed when it was received gives the same storage  *)
(* row in every field.                                                     *)
(***************************************************************************)
C26_TransformerDeterministic ==
    \A i \in Transformed : RowOf([log[i] EXCEPT !.at = now]) = RowOf(log[i])

AllOk == [t \in Tables |-> "Ok"]

(***************************************************************************)
(* C27  Schema initialization is idempotent: a start on a database that    *)
(* holds any subset of the three tables leaves every existing table and    *)
(* its rows untouched; when the initialization succeeds exactly the three  *)
(* tables are present, those that were absent being created empty; and     *)
(* initializing twice gives the same database as initializing once.        *)
(***************************************************************************)
C27_InitIdempotent ==
    /\ [](LET once == init_tables(store, AllOk, 0)
          IN /\ once.result = "Ok"
             /\ init_tables(once.store, AllOk, 0).store = once.store)
    /\ [][starts' # starts =>
             /\ DOMAIN store' = Tables
             /\ \A t \in Tables :
                   /\ store[t] # None => store'[t] = store[t]
                   /\ (store[t] = None /\ store'[t] # None) => store'[t] = Some(<<>>)
                   /\ proc_state' = "built" => store'[t] # None]_vars

\* the process has started twice with success on a database that had one
\* table out of three: that table kept its row, the others are empty
C27_Witness ==
    /\ starts = 2
    /\ proc_state = "built"
    /\ Len(boot_log) = 6
    /\ \A i \in 1..6 : boot_log[i].ok
    /\ store["accounts"] = Some(OldRows("accounts"))
    /\ store["transactions"] = Some(<<>>)
    /\ store["slots"] = Some(<<>>)

(***************************************************************************)
(* C28  A storage initialization failure at startup is fatal and comes     *)
(* before the pipeline: if a CREATE TABLE statement of a start fails, it   *)
(* is the last statement of that start and Processor::new fails; a         *)
(* Processor exists only after three statements that succeeded; and while  *)
(* no Processor exists no event is pushed, taken or written.               *)
(***************************************************************************)
C28_InitFailureFatal ==
    /\ [](/\ \A i \in 1..Len(LastBoot) :
                ~LastBoot[i].ok => (i = Len(LastBoot) /\ proc_state = "failed")
          /\ proc_state = "built" =>
                (Len(LastBoot) = 3 /\ \A i \in 1..3 : LastBoot[i].ok)
          /\ proc_state = "failed" =>
                (tx_buffer = <<>> /\ account_buffer = <<>> /\ slot_buffer = <<>>))
    /\ [][proc_state # "built" => (log' = log /\ sent' = sent)]_vars

\* the first start failed at the second table, before any event was taken
C28_Witness ==
    /\ starts = 1
    /\ proc_state = "failed"
    /\ Len(boot_log) = 2
    /\ boot_log[1].ok
    /\ ~boot_log[2].ok
    /\ boot_log[2].table = "accounts"
    /\ store["transactions"] = Some(<<>>)
    /\ store["slots"] = None
    /\ log = <<>>
    /\ sent = <<>>

(***************************************************************************)
(* C29  The consumer handles one trigger at a time: from the moment a      *)
(* flush starts its batch write for a table until that write returns, the  *)
(* buffer of the table is exactly the batch being written, no event is     *)
(* taken, no buffer changes and no other flush starts; when the write      *)
(* returns the buffer is cleared (Ok) or left as it is (Err), so the rows  *)
(* stored followed by the rows buffered are always the rows received.      *)
(***************************************************************************)
C29_OneTriggerAtATime ==
    /\ [](/\ inflight # None =>
                (/\ inflight[1].rows # <<>>
                 /\ Buffer(inflight[1].table) = inflight[1].rows)
          /\ \A t \in Tables : Stored(log, t) \o Buffer(t) = Received(log, t))
    /\ [][inflight # None =>
            \/ /\ log' = log
               /\ inflight' = inflight
               /\ \A t \in Tables : BufferAfter(t) = Buffer(t)
            \/ /\ Len(NewLog) = 1
               /\ IsWrite(NewLog[1], inflight[1].table)
               /\ NewLog[1].rows = inflight[1].rows
               /\ BufferAfter(inflight[1].table) =
                     (IF NewLog[1].ok THEN <<>> ELSE inflight[1].rows)
               /\ \A t \in Tables \ {inflight[1].table} :
                     BufferAfter(t) = Buffer(t)]_vars

\* a full batch of accounts was written and cleared, nothing else was
\* taken, and a slot event waits in the channel
C29_Witness ==
    /\ inflight = None
    /\ log # <<>>
    /\ IsWrite(log[Len(log)], "accounts")
    /\ log[Len(log)].ok
    /\ Len(log[Len(log)].rows) = batch_size
    /\ account_buffer = <<>>
    /\ Stored(log, "accounts") = Received(log, "accounts")
    /\ chan # <<>>
    /\ Head(chan).kind = "Slot"
    /\ Len(sent) = Len(Taken(log)) + Len(chan)

(***************************************************************************)
(* C30  A hung storage write stalls the whole pipeline: while a batch      *)
(* write is pending the consumer takes no event, no tick is served and no  *)
(* other flush starts; the only step possible is a push into a channel     *)
(* that is not full, so with the channel at capacity nothing moves until   *)
(* the write returns.  The pending write ends only by returning (there is  *)
(* no timeout), and every event pushed is either taken or still in the     *)
(* channel (none is dropped).                                              *)
(***************************************************************************)
C30_HungWriteStalls ==
    /\ [](/\ Len(chan) <= ChannelCap
          /\ sent = Taken(log) \o chan)
    /\ [][(inflight # None /\ log' = log) =>
            /\ inflight' = inflight
            /\ now' = now
            /\ UNCHANGED <<tx_buffer, account_buffer, slot_buffer, last_result>>
            /\ Len(chan) < ChannelCap
            /\ Len(sent') = Len(sent) + 1
            /\ chan' = Append(chan, sent'[Len(sent')])]_vars
    /\ [][(inflight # None /\ log' # log) =>
            /\ Len(NewLog) = 1
            /\ NewLog[1].op = "write"
            /\ NewLog[1].rows = inflight[1].rows
            /\ now' = now
            /\ chan' = chan
            /\ sent' = sent]_vars

\* a write is pending and the channel is full: the producer is suspended
C30_Witness ==
    /\ inflight # None
    /\ Len(chan) = ChannelCap
    /\ Len(sent) = ChannelCap + Len(Taken(log))

(***************************************************************************)
(* C31  Channel close is end-of-input, not an error: once the producer has *)
(* closed the channel the consumer eventually exits; it exits only from    *)
(* the channel-closed trigger, with the channel drained and every event    *)
(* pushed taken in push order, its final flush-all being the last thing    *)
(* it did; and the exit reports an error only if a write of that final     *)
(* flush failed.                                                           *)
(***************************************************************************)
C31_CloseIsEndOfInput ==
    /\ closed ~> (pc = "exited")
    /\ [](pc = "exited" =>
            /\ closed
            /\ chan = <<>>
            /\ Taken(log) = sent
            /\ \E i \in 1..Len(log) :
                  /\ log[i].op = "closed"
                  /\ \A j \in (i + 1)..Len(log) : log[j].op = "write"
                  /\ \A j \in 1..(i - 1) : log[j].op # "closed"
            /\ last_result \in {"Ok", "Err"}
            /\ last_result = "Err" =>
                  (log[Len(log)].op = "write" /\ ~log[Len(log)].ok))
    /\ [][(pc = "running" /\ pc' = "exited") =>
            (closed /\ chan = <<>> /\ Trigger.op = "closed")]_vars

\* the consumer has exited after taking every event pushed and writing rows
\* in its final flush, none of them failing
C31_Witness ==
    /\ pc = "exited"
    /\ last_result = "Ok"
    /\ Len(sent) >= 2
    /\ Taken(log) = sent
    /\ log[Len(log)].op = "write"
    /\ log[Len(log)].ok
    /\ \E i \in 1..Len(log) : log[i].op = "closed" /\ i < Len(log)

(***************************************************************************)
(* C32  Transformation happens inside the flush: the timestamp of every    *)
(* transaction or slot row of a batch write is the clock value of the      *)
(* flush attempt that writes it, not the clock value at the arrival of     *)
(* its event.                                                              *)
(***************************************************************************)
C32_TransformAtFlush ==
    \A i \in 1..Len(log) :
        (log[i].op = "write" /\ log[i].table \in {"transactions", "slots"}) =>
            \A k \in 1..Len(log[i].rows) : log[i].rows[k].timestamp = log[i].at

(***************************************************************************)
(* C34  (original) The transaction filter does not exclude failed          *)
(* transactions: no transaction that failed on chain, is not a vote and    *)
(* touches a subscribed program is held back by the filter.                *)
(***************************************************************************)
C34_Original ==
    \A tx \in withheld : ~(tx.failed /\ ~tx.is_vote /\ Touches(tx))

\* the chain transaction a delivered update was made of
Delivered(i) == {tx \in ChainTxs : UpdateOf(tx) = seen[i].update[1]}

(***************************************************************************)
(* C34  (amended) The transaction filter excludes failed transactions as   *)
(* well as vote transactions: a transaction is held back exactly when it   *)
(* is a vote, failed on chain or touches no subscribed program; every      *)
(* update delivered is of a transaction that is none of these, and it is   *)
(* decoded into a TransactionEvent whose success is read from the          *)
(* metadata (no error: success = true).                                    *)
(***************************************************************************)
C34_FilterExcludesFailed ==
    /\ \A tx \in withheld : tx.is_vote \/ tx.failed \/ ~Touches(tx)
    /\ Len(decoded) = Len(seen)
    /\ \A i \in 1..Len(seen) :
          /\ Delivered(i) # {}
          /\ \A tx \in Delivered(i) : ~tx.is_vote /\ ~tx.failed /\ Touches(tx)
          /\ decoded[i].kind = "Transaction"
          /\ decoded[i].body.success =
                (seen[i].update[1].payload[1].meta[1].err = None)
          /\ decoded[i].body.success

\* a failed transaction that touches a subscribed program was held back and
\* a successful one was delivered and decoded
C34_Witness ==
    /\ \E tx \in withheld : tx.failed /\ ~tx.is_vote /\ Touches(tx)
    /\ Len(seen) >= 1
    /\ Len(decoded) >= 1
    /\ decoded[1].body.success

(***************************************************************************)
(* C35  Event arrival touches only its own type: taking an Account,        *)
(* Transaction or Slot event appends exactly its row to the end of the     *)
(* matching buffer and leaves the other two buffers as they are; if it     *)
(* triggers a size flush there is one batch write, of the event's table,   *)
(* carrying the buffer with the new row at its end, and the buffer is      *)
(* then empty (write succeeded) or kept with the new row (write failed).   *)
(***************************************************************************)
C35_ArrivalTouchesOwnType ==
    [][(Trigger.op = "recv" /\ Trigger.table \in Tables) =>
          LET t == Trigger.table
              grown == Append(Buffer(t), RowOf(Trigger))
          IN /\ \A u \in Tables \ {t} :
                    BufferAfter(u) = Buffer(u) /\ Writes(NewLog, u) = {}
             /\ Len(NewLog) <= 2
             /\ Len(NewLog) = 2 =>
                    /\ IsWrite(NewLog[2], t)
                    /\ NewLog[2].rows = grown
                    /\ BufferAfter(t) = (IF NewLog[2].ok THEN <<>> ELSE grown)
             /\ Len(NewLog) = 1 => BufferAfter(t) = grown]_vars

\* the arrival of an account event wrote the accounts alone, successfully,
\* while a row of another type stayed buffered
C35_Witness ==
    /\ Len(log) >= 2
    /\ IsRecv(log[Len(log) - 1], "accounts")
    /\ IsWrite(log[Len(log)], "accounts")
    /\ log[Len(log)].ok
    /\ account_buffer = <<>>
    /\ slot_buffer # <<>> \/ tx_buffer # <<>>

(***************************************************************************)
(* C36  After a size-triggered flush has failed the buffer stays at        *)
(* batch_size rows or more: every later event of that type triggers        *)
(* another flush attempt on its arrival, carrying more than batch_size     *)
(* rows; and an event whose arrival triggered a failing flush stays in     *)
(* the buffer although process_event returned an error for it.             *)
(***************************************************************************)
C36_RetryOnEveryArrival ==
    [][(Trigger.op = "recv" /\ Trigger.table \in Tables) =>
          LET t == Trigger.table
              grown == Append(Buffer(t), RowOf(Trigger))
          IN /\ Len(Buffer(t)) >= batch_size =>
                    /\ Len(NewLog) = 2
                    /\ IsWrite(NewLog[2], t)
                    /\ NewLog[2].rows = grown
                    /\ Len(NewLog[2].rows) > batch_size
             /\ (Len(NewLog) = 2 /\ ~NewLog[2].ok) =>
                    /\ last_result' = "Err"
                    /\ BufferAfter(t) = grown
                    /\ Len(BufferAfter(t)) >= batch_size]_vars

\* a size flush of the accounts failed, the next account event triggered
\* another attempt on arrival, and that one stored batch_size + 1 rows
C36_Witness ==
    /\ Len(log) >= 5
    /\ IsRecv(log[Len(log) - 3], "accounts")
    /\ IsWrite(log[Len(log) - 2], "accounts")
    /\ ~log[Len(log) - 2].ok
    /\ Len(log[Len(log) - 2].rows) = batch_size
    /\ IsRecv(log[Len(log) - 1], "accounts")
    /\ IsWrite(log[Len(log)], "accounts")
    /\ log[Len(log)].ok
    /\ Len(log[Len(log)].rows) = batch_size + 1
    /\ account_buffer = <<>>
    /\ last_result = "Ok"

(***************************************************************************)
(* C37  Buffer bound at rest: whenever process_event returns success the   *)
(* buffer of the processed event's type is shorter than batch_size; hence  *)
(* as long as no batch write has failed, every buffer is shorter than      *)
(* batch_size between any two operations of the processor.                 *)
(***************************************************************************)
C37_BufferBoundAtRest ==
    /\ [](FailedWrites(log) = {} =>
             \A t \in Tables : Len(Buffer(t)) < batch_size)
    /\ [][(Trigger.op = "recv" /\ Trigger.table \in Tables
              /\ last_result' = "Ok") =>
             Len(BufferAfter(Trigger.table)) < batch_size]_vars

\* the arrival of the batch_size-th slot was flushed successfully with no
\* write having failed before: process_event returned Ok on an empty buffer
C37_Witness ==
    /\ Len(log) >= 2
    /\ IsRecv(log[Len(log) - 1], "slots")
    /\ IsWrite(log[Len(log)], "slots")
    /\ Len(log[Len(log)].rows) = batch_size
    /\ FailedWrites(log) = {}
    /\ last_result = "Ok"
    /\ slot_buffer = <<>>

\* position of a table in the order in which flush_all calls the flushes
Rank(t) ==
    CASE t = "transactions" -> 1
      [] t = "accounts" -> 2
      [] OTHER -> 3

\* the storage calls of the step, after its trigger
Calls == Tail(NewLog)

(***************************************************************************)
(* C38  flush_all attempts the types in the order transactions, accounts,  *)
(* slots and stops at the first failing write: the writes of one call are  *)
(* in that order, a failed write is the last of them, a non-empty type is  *)
(* attempted unless an earlier one failed, the types after a failure are   *)
(* not attempted and keep their buffers, the types written before it are   *)
(* cleared, and the call returns success only if every write succeeded.    *)
(***************************************************************************)
C38_FlushAllStopsAtFailure ==
    [][Trigger.op \in {"tick", "closed"} =>
          /\ \A i \in 1..Len(Calls) :
                /\ Calls[i].op = "write"
                /\ Calls[i].rows = Buffer(Calls[i].table)
                /\ ~Calls[i].ok => i = Len(Calls)
                /\ \A j \in (i + 1)..Len(Calls) :
                      Rank(Calls[i].table) < Rank(Calls[j].table)
          /\ \A t \in Tables :
                LET failedBefore ==
                        \E i \in 1..Len(Calls) :
                            ~Calls[i].ok /\ Rank(Calls[i].table) < Rank(t)
                IN /\ (Buffer(t) # <<>> /\ ~failedBefore) <=>
                          Writes(Calls, t) # {}
                   /\ failedBefore => BufferAfter(t) = Buffer(t)
                   /\ (\E i \in 1..Len(Calls) : IsWrite(Calls[i], t) /\ Calls[i].ok)
                          => BufferAfter(t) = <<>>
          /\ (last_result' = "Ok") <=>
                (\A i \in 1..Len(Calls) : Calls[i].ok)]_vars

\* a tick wrote the transactions, failed on the accounts and left the slots
\* unattempted in their buffer
C38_Witness ==
    /\ Len(log) >= 3
    /\ log[Len(log) - 2].op = "tick"
    /\ IsWrite(log[Len(log) - 1], "transactions")
    /\ log[Len(log) - 1].ok
    /\ IsWrite(log[Len(log)], "accounts")
    /\ ~log[Len(log)].ok
    /\ tx_buffer = <<>>
    /\ account_buffer # <<>>
    /\ slot_buffer # <<>>
    /\ last_result = "Err"

\* the account indices of an instruction that are in range of the keys
InRange(ids, account_keys) ==
    SelectSeq(ids, LAMBDA id : id < Len(account_keys))

(***************************************************************************)
(* C39  In a decoded instruction the account indices out of range of the   *)
(* message's account_keys are dropped silently: the accounts list holds    *)
(* the base58 keys of exactly the in-range indices, in their original      *)
(* order and with repeats kept, so it is never longer than the index list  *)
(* and shorter when an index is out of range; decoding such a transaction  *)
(* gives an event and no error.                                            *)
(***************************************************************************)
C39_OutOfRangeAccountsDropped ==
    (TxRead /\ TxBody # None /\ TxMeta # None /\ TxMessage # None) =>
        /\ Len(decoded) = 1
        /\ conn_result # "Err"
        /\ Len(TxEvent.instructions) = Len(TxMessage[1].instructions)
        /\ \A k \in 1..Len(TxMessage[1].instructions) :
              LET ids == TxMessage[1].instructions[k].accounts
                  keys == TxMessage[1].account_keys
                  kept == InRange(ids, keys)
                  accounts == TxEvent.instructions[k].accounts
              IN /\ Len(accounts) = Len(kept)
                 /\ \A i \in 1..Len(kept) :
                       accounts[i] = bs58_encode(keys[kept[i] + 1])
                 /\ Len(accounts) <= Len(ids)
                 /\ (Len(accounts) < Len(ids)) <=>
                       (\E i \in 1..Len(ids) : ids[i] >= Len(keys))

\* index list 1, 5, 0, 1 over two keys: index 5 is dropped, the repeat of
\* index 1 is kept, three accounts in the order of the indices
C39_Witness ==
    /\ TxRead
    /\ TxBody # None
    /\ TxMeta # None
    /\ TxMessage # None
    /\ Len(TxMessage[1].account_keys) = 2
    /\ Len(TxMessage[1].instructions) >= 1
    /\ TxMessage[1].instructions[1].accounts = <<1, 5, 0, 1>>
    /\ Len(decoded) = 1
    /\ TxEvent.instructions[1].accounts = <<"21", "12", "21">>

====
